---- MODULE Spec2Model ----
(***************************************************************************)
(* The OAuth authorization flow engine of the inspector: the provider over *)
(* its credential store (client/src/lib/auth.ts), the transition table and *)
(* its driver (client/src/lib/oauth-state-machine.ts) and the CLI driver   *)
(* (bin/test-auth-flow.ts).                                                *)
(*                                                                         *)
(* Strings that the code inspects (URLs, authorization codes) are          *)
(* sequences of tokens, so that a regular-expression test is a search for  *)
(* a contiguous subsequence and trim() removes leading and trailing blanks.*)
(* An optional value is a sequence of length 0 (null/undefined) or 1.      *)
(***************************************************************************)
EXTENDS Integers, Sequences, FiniteSets, TLC

VARIABLES state, storage, last, pc, regCalls, probe, providerCall, autoRedirect,
          input, authServer, validation, proxy, inflight, harness

vars ==
  <<state, storage, last, pc, regCalls, probe, providerCall, autoRedirect, input,
    authServer, validation, proxy, inflight, harness>>

\* the OAuth engine, its provider and its drivers
engine ==
  <<state, storage, last, pc, regCalls, probe, providerCall, autoRedirect, input>>

None == <<>>

Some(v) == <<v>>

IsSome(o) == Len(o) > 0

Val(o) == o[1]

(***************************************************************************)
(* URL strings.                                                            *)
(***************************************************************************)
Scheme == "https://"

Concat3(a, b, c) == a \o b \o c

\* String.prototype.includes / an unanchored RegExp of literals: p occurs in s
Contains(s, p) ==
  \E i \in 1..(Len(s) - Len(p) + 1) : SubSeq(s, i, i + Len(p) - 1) = p

\* index of the first token of s at or after position i that ends the authority
RECURSIVE AuthorityEnd(_, _)
AuthorityEnd(s, i) ==
  IF i > Len(s) THEN Len(s) + 1
  ELSE IF s[i] \in {"/", "?"} THEN i
  ELSE AuthorityEnd(s, i + 1)

\* new URL(s) succeeds: an absolute URL with a scheme and a non-empty host
IsValidUrl(s) ==
  /\ Len(s) >= 2
  /\ s[1] = Scheme
  /\ AuthorityEnd(s, 2) > 2

\* new URL(s).host
UrlHost(s) == SubSeq(s, 2, AuthorityEnd(s, 2) - 1)

\* new URL(s).origin
UrlOrigin(s) == SubSeq(s, 1, AuthorityEnd(s, 2) - 1)

\* new URL(s).pathname + search, "/" when the string has no path
UrlPath(s) ==
  LET e == AuthorityEnd(s, 2)
  IN IF e > Len(s) \/ s[e] = "?" THEN <<"/">> \o SubSeq(s, e, Len(s))
     ELSE SubSeq(s, e, Len(s))

\* new URL(s).href of a valid URL: the serialisation always has a path
NewURL(s) == UrlOrigin(s) \o UrlPath(s)

\* new URL("/", base)
NewURLRoot(base) == UrlOrigin(base) \o <<"/">>

(***************************************************************************)
(* isAzureADEndpoint                                                       *)
(***************************************************************************)
azurePatterns ==
  { <<"login", ".", "microsoftonline", ".", "com">>,
    <<"login", ".", "microsoft", ".", "com">>,
    <<"login", ".", "live", ".", "com">>,
    <<".", "b2clogin", ".", "com">> }

\* metadata.authorization_endpoint is optional; "" and undefined are falsy
isAzureADEndpoint(metadata) ==
  LET authUrl == metadata.authorization_endpoint
  IN IF ~IsSome(authUrl) \/ Val(authUrl) = <<>> THEN FALSE
     ELSE \E pattern \in azurePatterns : Contains(Val(authUrl), pattern)

\* Inputs of the predicate: every host with every path and query, and the
\* missing and the empty endpoint.
ProbeHosts ==
  { <<"login", ".", "microsoftonline", ".", "com">>,
    <<"login", ".", "microsoft", ".", "com">>,
    <<"login", ".", "live", ".", "com">>,
    <<"contoso", ".", "b2clogin", ".", "com">>,
    <<"b2clogin", ".", "com">>,
    <<"auth0", ".", "com">>,
    <<"accounts", ".", "google", ".", "com">>,
    <<"example", ".", "com">>,
    <<"login", ".", "microsoftonline", ".", "com", ".", "evil", ".", "com">> }

ProbePaths ==
  { <<>>,
    <<"/", "authorize">>,
    <<"/", "login", ".", "live", ".", "com", "/", "authorize">> }

ProbeQueries ==
  { <<>>,
    <<"?", "tenant=", "common">>,
    <<"?", "hint=", "login", ".", "microsoft", ".", "com">> }

ProbeInputs ==
  { None, Some(<<>>) } \cup
  { Some(Concat3(<<Scheme>> \o h, p, q)) :
      h \in ProbeHosts, p \in ProbePaths, q \in ProbeQueries }

ProbeInit ==
  probe \in { [input |-> i, result |-> "unset"] : i \in ProbeInputs }

\* one call isAzureADEndpoint({ authorization_endpoint: input })
ProbeAzure ==
  /\ probe.result = "unset"
  /\ probe' = [probe EXCEPT !.result =
       IF isAzureADEndpoint([authorization_endpoint |-> probe.input])
       THEN "true" ELSE "false"]
  /\ UNCHANGED <<state, storage, last, pc, regCalls, providerCall, autoRedirect, input,
               authServer, validation, proxy, inflight, harness>>

(***************************************************************************)
(* Credential store and provider (InspectorOAuthClientProvider and         *)
(* DebugInspectorOAuthClientProvider).                                     *)
(***************************************************************************)
ServerUrl == <<Scheme, "mcp", ".", "example", ".", "com", "/", "mcp">>

\* a second MCP server whose flows share the store
OtherServerUrl == <<Scheme, "other", ".", "example", ".", "com", "/", "mcp">>

Servers == { ServerUrl, OtherServerUrl }

SESSION_KEYS ==
  [ SERVER_URL |-> "mcp_server_url",
    CLIENT_INFORMATION |-> "mcp_client_information",
    TOKENS |-> "mcp_tokens",
    CODE_VERIFIER |-> "mcp_code_verifier",
    SERVER_METADATA |-> "mcp_server_metadata" ]

\* a key is the pair of its namespace (empty for a bare key) and its base key
BareKey(baseKey) == <<None, baseKey>>

getServerSpecificKey(baseKey, serverUrl) == <<serverUrl, baseKey>>

CredentialKeys(serverUrl) ==
  { getServerSpecificKey(SESSION_KEYS[k], serverUrl) :
      k \in {"CLIENT_INFORMATION", "TOKENS", "CODE_VERIFIER", "SERVER_METADATA"} }

StorageKeys ==
  { BareKey(SESSION_KEYS.SERVER_URL) } \cup
  UNION { CredentialKeys(s) : s \in Servers }

EmptyStorage == [ k \in StorageKeys |-> None ]

\* JSON.stringify of an object: the text is its set of "key": value members
Stringify(x) == { <<k, x[k]>> : k \in DOMAIN x }

\* JSON.parse of such a text: the object with one property per member.  The
\* schema the provider parses the object with (OAuthClientInformationSchema,
\* OAuthTokensSchema) accepts every object of its own type as it is.
Parse(text) ==
  [ k \in { member[1] : member \in text } |->
      (CHOOSE member \in text : member[1] = k)[2] ]

getItem(sto, key) == sto[key]

setItem(sto, key, value) == [sto EXCEPT ![key] = Some(value)]

removeItem(sto, key) == [sto EXCEPT ![key] = None]

\* constructor: records the server URL under the bare SERVER_URL key
NewProvider(sto, serverUrl) ==
  setItem(sto, BareKey(SESSION_KEYS.SERVER_URL), serverUrl)

clientInformation(sto, serverUrl) ==
  LET value == getItem(sto, getServerSpecificKey(SESSION_KEYS.CLIENT_INFORMATION, serverUrl))
  IN IF ~IsSome(value) THEN None ELSE Some(Parse(Val(value)))

saveClientInformation(sto, serverUrl, info) ==
  setItem(sto, getServerSpecificKey(SESSION_KEYS.CLIENT_INFORMATION, serverUrl),
          Stringify(info))

\* a tokens() that reads the key of the client information
tokens_ReadsClientInformation(sto, serverUrl) ==
  LET value == getItem(sto, getServerSpecificKey(SESSION_KEYS.CLIENT_INFORMATION, serverUrl))
  IN IF ~IsSome(value) THEN None ELSE Some(Parse(Val(value)))

tokens(sto, serverUrl) ==
  LET value == getItem(sto, getServerSpecificKey(SESSION_KEYS.TOKENS, serverUrl))
  IN IF ~IsSome(value) THEN None ELSE Some(Parse(Val(value)))

saveTokens(sto, serverUrl, t) ==
  setItem(sto, getServerSpecificKey(SESSION_KEYS.TOKENS, serverUrl), Stringify(t))

saveCodeVerifier(sto, serverUrl, verifier) ==
  setItem(sto, getServerSpecificKey(SESSION_KEYS.CODE_VERIFIER, serverUrl), verifier)

\* None stands for the throw "No code verifier saved for session"
codeVerifier(sto, serverUrl) ==
  getItem(sto, getServerSpecificKey(SESSION_KEYS.CODE_VERIFIER, serverUrl))

saveServerMetadata(sto, serverUrl, metadata) ==
  setItem(sto, getServerSpecificKey(SESSION_KEYS.SERVER_METADATA, serverUrl),
          Stringify(metadata))

getServerMetadata(sto, serverUrl) ==
  LET value == getItem(sto, getServerSpecificKey(SESSION_KEYS.SERVER_METADATA, serverUrl))
  IN IF ~IsSome(value) THEN None ELSE Some(Parse(Val(value)))

\* a clear() that forgets the code verifier
InspectorOAuthClientProvider_clear_KeepsVerifier(sto, serverUrl) ==
  removeItem(
    removeItem(sto, getServerSpecificKey(SESSION_KEYS.CLIENT_INFORMATION, serverUrl)),
    getServerSpecificKey(SESSION_KEYS.TOKENS, serverUrl))

\* InspectorOAuthClientProvider.clear
InspectorOAuthClientProvider_clear(sto, serverUrl) ==
  removeItem(
    removeItem(
      removeItem(sto, getServerSpecificKey(SESSION_KEYS.CLIENT_INFORMATION, serverUrl)),
      getServerSpecificKey(SESSION_KEYS.TOKENS, serverUrl)),
    getServerSpecificKey(SESSION_KEYS.CODE_VERIFIER, serverUrl))

\* DebugInspectorOAuthClientProvider.clear: super.clear() and the metadata
clear(sto, serverUrl) ==
  removeItem(InspectorOAuthClientProvider_clear(sto, serverUrl),
             getServerSpecificKey(SESSION_KEYS.SERVER_METADATA, serverUrl))

\* the four credential records of a server, as stored
Persisted(sto, serverUrl) == [ k \in CredentialKeys(serverUrl) |-> sto[k] ]

\* the last operation a caller made on a provider of its own: the server URL
\* the provider was constructed for, the method, its argument and its result
\* (None for undefined, for a throw and for a method that returns nothing)
ProviderCall(serverUrl, op, arg, result) ==
  [ serverUrl |-> serverUrl, op |-> op, arg |-> arg, result |-> result ]

NoProviderCall == ProviderCall(None, "none", None, None)

(***************************************************************************)
(* What the environment can answer to the remote calls of the engine.      *)
(***************************************************************************)
AuthServerA == <<Scheme, "as", ".", "example", ".", "com">>

NotAUrl == <<"as.example.com">>

OtherResource == <<Scheme, "other", ".", "example", ".", "com", "/", "api">>

\* protected-resource metadata documents; None is a failed fetch
ResourceDocs ==
  { [resource |-> ServerUrl, authorization_servers |-> <<>>],
    [resource |-> ServerUrl, authorization_servers |-> <<AuthServerA>>],
    [resource |-> ServerUrl, authorization_servers |-> <<NotAUrl, AuthServerA>>],
    [resource |-> OtherResource, authorization_servers |-> <<AuthServerA>>] }

PrmOutcomes == { None } \cup { Some(d) : d \in ResourceDocs }

AzureEndpoint ==
  <<Scheme, "login", ".", "microsoftonline", ".", "com", "/", "authorize">>

PlainEndpoint == <<Scheme, "as", ".", "example", ".", "com", "/", "authorize">>

PathLookalikeEndpoint ==
  <<Scheme, "as", ".", "example", ".", "com",
    "/", "login", ".", "live", ".", "com", "/", "authorize">>

Endpoints == { AzureEndpoint, PlainEndpoint, PathLookalikeEndpoint }

\* discoverAuthorizationServerMetadata: undefined, a throw, a document the
\* schema rejects, or a valid document
AsOutcomes ==
  { [kind |-> k, endpoint |-> None] : k \in {"undefined", "throws", "invalid"} } \cup
  { [kind |-> "valid", endpoint |-> Some(e)] : e \in Endpoints }

ClientInfos == { [client_id |-> c] : c \in {"client-1", "client-2"} }

\* PKCE code verifiers startAuthorization can generate
Verifiers == { <<"verifier-1">>, <<"verifier-2">> }

TokenBundles == { [access_token |-> t] : t \in {"token-1", "token-2"} }

\* the strings of at most n characters over a blank and a letter
RECURSIVE Strings(_)
Strings(n) ==
  IF n = 0 THEN { <<>> }
  ELSE LET shorter == Strings(n - 1)
       IN shorter \cup { Append(s, ch) : s \in shorter, ch \in {" ", "c"} }

MaxCodeLen == 2

\* authorization codes a caller can put into the state, and no code at all
Codes == { None } \cup { Some(s) : s \in Strings(MaxCodeLen) }

\* the answers of one executeStep call: protected-resource metadata,
\* authorization-server metadata, registerClient, startAuthorization,
\* exchangeAuthorization (None is a throw); http is the answer to the GET of
\* the redirect probe
NoEnv ==
  [ prm |-> None, asm |-> [kind |-> "throws", endpoint |-> None],
    reg |-> None, sa |-> None, ex |-> None, http |-> None ]

EnvsOf(step) ==
  CASE step = "metadata_discovery" ->
         { [NoEnv EXCEPT !.prm = p, !.asm = a] : p \in PrmOutcomes, a \in AsOutcomes }
    [] step = "client_registration" ->
         { [NoEnv EXCEPT !.reg = r] : r \in {None} \cup {Some(c) : c \in ClientInfos} }
    [] step = "authorization_redirect" ->
         { [NoEnv EXCEPT !.sa = v] : v \in {None} \cup {Some(v) : v \in Verifiers} }
    [] step = "token_request" ->
         { [NoEnv EXCEPT !.ex = t] : t \in {None} \cup {Some(t) : t \in TokenBundles} }
    [] OTHER -> { NoEnv }

(***************************************************************************)
(* AuthDebuggerState                                                       *)
(***************************************************************************)
EMPTY_DEBUGGER_STATE ==
  [ oauthStep |-> "metadata_discovery",
    authServerUrl |-> None,
    resourceMetadata |-> None,
    resourceMetadataError |-> None,
    resource |-> None,
    oauthMetadata |-> None,
    oauthClientInfo |-> None,
    authorizationUrl |-> None,
    authorizationCode |-> Some(<<>>),
    oauthTokens |-> None,
    latestError |-> None,
    validationError |-> None,
    statusMessage |-> None ]

\* this.state = { ...this.state, ...updates }
Merge(st, updates) ==
  [ f \in DOMAIN st |-> IF f \in DOMAIN updates THEN updates[f] ELSE st[f] ]

RECURSIVE ApplyUpdates(_, _)
ApplyUpdates(st, updates) ==
  IF updates = <<>> THEN st
  ELSE ApplyUpdates(Merge(st, Head(updates)), Tail(updates))

\* String.prototype.trim
RECURSIVE TrimStart(_)
TrimStart(s) ==
  IF s # <<>> /\ Head(s) = " " THEN TrimStart(Tail(s)) ELSE s

RECURSIVE TrimEnd(_)
TrimEnd(s) ==
  IF s # <<>> /\ s[Len(s)] = " " THEN TrimEnd(SubSeq(s, 1, Len(s) - 1)) ELSE s

Trim(s) == TrimEnd(TrimStart(s))

\* !x of an optional string: undefined, null and "" are falsy
Falsy(o) == ~IsSome(o) \/ Val(o) = <<>>

(***************************************************************************)
(* The servers of the compliance harness and the inspector's proxy, as     *)
(* their constructors leave them.  A response is the status, the error     *)
(* code of an error body and the access token of a token body; a server    *)
(* keeps the last request it answered and its response.                    *)
(***************************************************************************)
\* new MockAuthServer(): no authorization request is stored
NewMockAuthServer ==
  [ authorizationRequests |-> None, request |-> None, response |-> None ]

\* new ValidationServer({ authRequired })
NewValidationServer(authRequired) ==
  [ config |-> [authRequired |-> authRequired],
    clientBehavior |->
      [ connected |-> FALSE, initialized |-> FALSE, requestsMade |-> <<>>,
        authMetadataRequested |-> FALSE, authFlowCompleted |-> FALSE ],
    request |-> None, response |-> None ]

\* mcpProxy({ transportToClient, transportToServer }): the two flags of the
\* closure, the forwards to the server that have not settled yet, what the
\* proxy did to the transports (messages sent, close() calls) and to the
\* onCleanup callback, and the onclose events that have fired
NewProxy ==
  [ transportToClientClosed |-> FALSE,
    transportToServerClosed |-> FALSE,
    reportedServerSession |-> FALSE,
    pending |-> {},
    sentToServer |-> 0,
    sentToClient |-> <<>>,
    closeCalls |-> [client |-> 0, server |-> 0],
    cleanupCalls |-> 0,
    fired |-> [client |-> 0, server |-> 0],
    event |-> [name |-> "mcpProxy", message |-> None] ]

\* the compliance harness before a client command is run: the child process
\* (its real termination, once it has one, and an exit event not yet
\* delivered), the timer of the driver, the promise the driver awaits and
\* what the driver made of its outcome
NewHarness ==
  [ driver |-> "none", expectedResult |-> "PASS", behaviorErrors |-> 0,
    process |-> "none", status |-> None, exitEvent |-> FALSE,
    timeoutHandle |-> FALSE, timedOut |-> FALSE,
    promise |-> "none", value |-> None,
    outcome |-> "none", exitCode |-> None, report |-> None, passed |-> None ]

(***************************************************************************)
(* The transition table, oauthTransitions.  An execute yields what the     *)
(* step did: whether it threw and with which error, the partial states it  *)
(* passed to updateState (in order), the storage it left and the remote    *)
(* calls it made (in order).  The scope string of the requests and the     *)
(* anti-CSRF state value are left out of the request parameters.           *)
(***************************************************************************)
Call(op, url, resource, code, verifier) ==
  [ op |-> op, url |-> url, resource |-> resource, code |-> code,
    verifier |-> verifier ]

Thrown(error, updates, sto, calls) ==
  [ threw |-> TRUE, error |-> error, updates |-> updates, storage |-> sto,
    calls |-> calls ]

Returned(updates, sto, calls) ==
  [ threw |-> FALSE, error |-> <<>>, updates |-> updates, storage |-> sto,
    calls |-> calls ]

IsPrefix(p, s) == Len(p) <= Len(s) /\ SubSeq(s, 1, Len(p)) = p

\* selectResourceURL for a provider without validateResourceURL: nothing
\* without a document, the document's resource when it covers the server
\* URL, and a throw when it does not
selectResourceURL(serverUrl, resourceMetadata) ==
  IF ~IsSome(resourceMetadata) THEN [threw |-> FALSE, resource |-> None]
  ELSE LET configured == Val(resourceMetadata).resource
       IN IF /\ UrlOrigin(configured) = UrlOrigin(serverUrl)
             /\ IsPrefix(UrlPath(configured), UrlPath(serverUrl))
          THEN [threw |-> FALSE, resource |-> Some(NewURL(configured))]
          ELSE [threw |-> TRUE, resource |-> None]

\* a discovery step that falls back to the server URL itself, path included
DiscoveryAuthServerUrl_ServerUrl(serverUrl, fetched) ==
  IF /\ IsSome(fetched)
     /\ Len(Val(fetched).authorization_servers) > 0
     /\ IsValidUrl(Val(fetched).authorization_servers[1])
  THEN NewURL(Val(fetched).authorization_servers[1])
  ELSE NewURL(serverUrl)

\* the authorization server the discovery step turns to
DiscoveryAuthServerUrl(serverUrl, fetched) ==
  IF /\ IsSome(fetched)
     /\ Len(Val(fetched).authorization_servers) > 0
     /\ IsValidUrl(Val(fetched).authorization_servers[1])
  THEN NewURL(Val(fetched).authorization_servers[1])
  ELSE NewURLRoot(serverUrl)

\* what the catch block of the discovery step records
DiscoveryError(fetched) ==
  IF ~IsSome(fetched) THEN Some(<<"protected resource metadata fetch failed">>)
  ELSE IF /\ Len(Val(fetched).authorization_servers) > 0
          /\ ~IsValidUrl(Val(fetched).authorization_servers[1])
       THEN Some(<<"Invalid URL">>)
       ELSE None

\* a discovery step that caches the document before it validates it
metadata_discovery_SaveFirst(st, sto, env) ==
  LET authServerUrl == DiscoveryAuthServerUrl(ServerUrl, env.prm)
      selected == selectResourceURL(ServerUrl, env.prm)
      fetch == Call("discoverOAuthProtectedResourceMetadata", Some(ServerUrl), None, None, None)
      discover == Call("discoverAuthorizationServerMetadata", Some(authServerUrl), None, None, None)
      document == [authorization_endpoint |-> env.asm.endpoint]
      saved == saveServerMetadata(sto, ServerUrl, document)
  IN IF selected.threw
     THEN Thrown(<<"Protected resource does not match expected">>, <<>>, sto, <<fetch>>)
     ELSE IF env.asm.kind = "throws"
     THEN Thrown(<<"discoverAuthorizationServerMetadata failed">>, <<>>, sto,
                 <<fetch, discover>>)
     ELSE IF env.asm.kind = "undefined"
     THEN Thrown(<<"Failed to discover OAuth metadata">>, <<>>, sto, <<fetch, discover>>)
     ELSE IF env.asm.kind = "invalid"
     THEN Thrown(<<"ZodError">>, <<>>, saved, <<fetch, discover>>)
     ELSE Returned(
            << [ resourceMetadata |-> env.prm,
                 resource |-> selected.resource,
                 resourceMetadataError |-> DiscoveryError(env.prm),
                 authServerUrl |-> Some(authServerUrl),
                 oauthMetadata |-> Some(document),
                 oauthStep |-> "client_registration" ] >>,
            saved,
            <<fetch, discover>>)

metadata_discovery(st, sto, env) ==
  LET resourceMetadata == env.prm
      resourceMetadataError == DiscoveryError(env.prm)
      authServerUrl == DiscoveryAuthServerUrl(ServerUrl, env.prm)
      selected == selectResourceURL(ServerUrl, resourceMetadata)
      fetch == Call("discoverOAuthProtectedResourceMetadata", Some(ServerUrl), None, None, None)
      discover == Call("discoverAuthorizationServerMetadata", Some(authServerUrl), None, None, None)
      parsedMetadata == [authorization_endpoint |-> env.asm.endpoint]
  IN IF selected.threw
     THEN Thrown(<<"Protected resource does not match expected">>, <<>>, sto, <<fetch>>)
     ELSE IF env.asm.kind = "throws"
     THEN Thrown(<<"discoverAuthorizationServerMetadata failed">>, <<>>, sto,
                 <<fetch, discover>>)
     ELSE IF env.asm.kind = "undefined"
     THEN Thrown(<<"Failed to discover OAuth metadata">>, <<>>, sto, <<fetch, discover>>)
     ELSE IF env.asm.kind = "invalid"
     THEN Thrown(<<"ZodError">>, <<>>, sto, <<fetch, discover>>)
     ELSE Returned(
            << [ resourceMetadata |-> resourceMetadata,
                 resource |-> selected.resource,
                 resourceMetadataError |-> resourceMetadataError,
                 authServerUrl |-> Some(authServerUrl),
                 oauthMetadata |-> Some(parsedMetadata),
                 oauthStep |-> "client_registration" ] >>,
            saveServerMetadata(sto, ServerUrl, parsedMetadata),
            <<fetch, discover>>)

\* a registration step that never looks for a persisted client
client_registration_AlwaysRegisters(st, sto, env) ==
  LET register == Call("registerClient", Some(ServerUrl), None, None, None)
  IN IF ~IsSome(env.reg)
     THEN Thrown(<<"registerClient failed">>, <<>>, sto, <<register>>)
     ELSE Returned(<< [ oauthClientInfo |-> env.reg,
                        oauthStep |-> "authorization_redirect" ] >>,
                   saveClientInformation(sto, ServerUrl, Val(env.reg)),
                   <<register>>)

\* a registration step that asks a second time when the first request failed
client_registration_RetriesOnce(st, sto, env) ==
  LET stored == clientInformation(sto, ServerUrl)
      register == Call("registerClient", Some(ServerUrl), None, None, None)
  IN IF IsSome(stored)
     THEN Returned(<< [ oauthClientInfo |-> stored,
                        oauthStep |-> "authorization_redirect" ] >>, sto, <<>>)
     ELSE IF ~IsSome(env.reg)
     THEN Thrown(<<"registerClient failed">>, <<>>, sto, <<register, register>>)
     ELSE Returned(<< [ oauthClientInfo |-> env.reg,
                        oauthStep |-> "authorization_redirect" ] >>,
                   saveClientInformation(sto, ServerUrl, Val(env.reg)),
                   <<register>>)

client_registration(st, sto, env) ==
  LET stored == clientInformation(sto, ServerUrl)
      register == Call("registerClient", Some(ServerUrl), None, None, None)
  IN IF IsSome(stored)
     THEN Returned(<< [ oauthClientInfo |-> stored,
                        oauthStep |-> "authorization_redirect" ] >>, sto, <<>>)
     ELSE IF ~IsSome(env.reg)
     THEN Thrown(<<"registerClient failed">>, <<>>, sto, <<register>>)
     ELSE Returned(<< [ oauthClientInfo |-> env.reg,
                        oauthStep |-> "authorization_redirect" ] >>,
                   saveClientInformation(sto, ServerUrl, Val(env.reg)),
                   <<register>>)

\* PKCE: the code challenge of a verifier
S256(verifier) == <<"S256", verifier>>

authorization_redirect(st, sto, env) ==
  LET metadata == Val(st.oauthMetadata)
      clientInfo == Val(st.oauthClientInfo)
      scopes == Call("discoverScopes", Some(ServerUrl), None, None, None)
      isAzureAD == isAzureADEndpoint(metadata)
      resource == IF ~isAzureAD /\ IsSome(st.resource) THEN st.resource ELSE None
      start == Call("startAuthorization", metadata.authorization_endpoint, resource, None, None)
  IN IF ~IsSome(env.sa)
     THEN Thrown(<<"startAuthorization failed">>, <<>>, sto, <<scopes, start>>)
     ELSE Returned(
            << [ authorizationUrl |->
                   Some([ endpoint |-> Val(metadata.authorization_endpoint),
                          client_id |-> clientInfo.client_id,
                          code_challenge |-> S256(Val(env.sa)),
                          resource |-> resource ]),
                 oauthStep |-> "authorization_code" ] >>,
            saveCodeVerifier(sto, ServerUrl, Val(env.sa)),
            <<scopes, start>>)

\* a validation step that sends the caller back for a code
authorization_code_StepsBack(st, sto, env) ==
  IF Falsy(st.authorizationCode) \/ Trim(Val(st.authorizationCode)) = <<>>
  THEN Thrown(<<"Authorization code required">>,
              << [ validationError |->
                     Some(<<"You need to provide an authorization code">>),
                   oauthStep |-> "authorization_redirect" ] >>,
              sto, <<>>)
  ELSE Returned(<< [ validationError |-> None, oauthStep |-> "token_request" ] >>,
                sto, <<>>)

\* a validation step that does not trim the code
authorization_code_NoTrim(st, sto, env) ==
  IF Falsy(st.authorizationCode)
  THEN Thrown(<<"Authorization code required">>,
              << [ validationError |->
                     Some(<<"You need to provide an authorization code">>) ] >>,
              sto, <<>>)
  ELSE Returned(<< [ validationError |-> None, oauthStep |-> "token_request" ] >>,
                sto, <<>>)

authorization_code(st, sto, env) ==
  IF Falsy(st.authorizationCode) \/ Trim(Val(st.authorizationCode)) = <<>>
  THEN Thrown(<<"Authorization code required">>,
              << [ validationError |->
                     Some(<<"You need to provide an authorization code">>) ] >>,
              sto, <<>>)
  ELSE Returned(<< [ validationError |-> None, oauthStep |-> "token_request" ] >>,
                sto, <<>>)

\* a token step that publishes the tokens without persisting them
token_request_NoSave(st, sto, env) ==
  LET verifier == codeVerifier(sto, ServerUrl)
      metadata == Val(getServerMetadata(sto, ServerUrl))
      isAzureAD == isAzureADEndpoint(metadata)
      resource == IF ~isAzureAD /\ IsSome(st.resource) THEN st.resource ELSE None
      exchange == Call("exchangeAuthorization", metadata.authorization_endpoint, resource,
                       st.authorizationCode, verifier)
  IN IF Falsy(verifier)
     THEN Thrown(<<"No code verifier saved for session">>, <<>>, sto, <<>>)
     ELSE IF ~IsSome(env.ex)
     THEN Thrown(<<"exchangeAuthorization failed">>, <<>>, sto, <<exchange>>)
     ELSE Returned(<< [ oauthTokens |-> env.ex, oauthStep |-> "complete" ] >>,
                   sto, <<exchange>>)

\* a token step that removes the verifier once the exchange succeeded
token_request_ClearsVerifier(st, sto, env) ==
  LET verifier == codeVerifier(sto, ServerUrl)
      metadata == Val(getServerMetadata(sto, ServerUrl))
      isAzureAD == isAzureADEndpoint(metadata)
      resource == IF ~isAzureAD /\ IsSome(st.resource) THEN st.resource ELSE None
      exchange == Call("exchangeAuthorization", metadata.authorization_endpoint, resource,
                       st.authorizationCode, verifier)
  IN IF Falsy(verifier)
     THEN Thrown(<<"No code verifier saved for session">>, <<>>, sto, <<>>)
     ELSE IF ~IsSome(env.ex)
     THEN Thrown(<<"exchangeAuthorization failed">>, <<>>, sto, <<exchange>>)
     ELSE Returned(<< [ oauthTokens |-> env.ex, oauthStep |-> "complete" ] >>,
                   removeItem(saveTokens(sto, ServerUrl, Val(env.ex)),
                              getServerSpecificKey(SESSION_KEYS.CODE_VERIFIER, ServerUrl)),
                   <<exchange>>)

\* a token step that does not look at the verifier before the exchange
token_request_NoVerifierCheck(st, sto, env) ==
  LET verifier == codeVerifier(sto, ServerUrl)
      metadata == Val(getServerMetadata(sto, ServerUrl))
      isAzureAD == isAzureADEndpoint(metadata)
      resource == IF ~isAzureAD /\ IsSome(st.resource) THEN st.resource ELSE None
      exchange == Call("exchangeAuthorization", metadata.authorization_endpoint, resource,
                       st.authorizationCode, verifier)
  IN IF ~IsSome(env.ex)
     THEN Thrown(<<"exchangeAuthorization failed">>, <<>>, sto, <<exchange>>)
     ELSE Returned(<< [ oauthTokens |-> env.ex, oauthStep |-> "complete" ] >>,
                   saveTokens(sto, ServerUrl, Val(env.ex)),
                   <<exchange>>)

\* a token step that drops the stale tokens before it asks for new ones
token_request_DropsTokensFirst(st, sto, env) ==
  LET verifier == codeVerifier(sto, ServerUrl)
      metadata == Val(getServerMetadata(sto, ServerUrl))
      isAzureAD == isAzureADEndpoint(metadata)
      resource == IF ~isAzureAD /\ IsSome(st.resource) THEN st.resource ELSE None
      exchange == Call("exchangeAuthorization", metadata.authorization_endpoint, resource,
                       st.authorizationCode, verifier)
      dropped == removeItem(sto, getServerSpecificKey(SESSION_KEYS.TOKENS, ServerUrl))
  IN IF Falsy(verifier)
     THEN Thrown(<<"No code verifier saved for session">>, <<>>, sto, <<>>)
     ELSE IF ~IsSome(env.ex)
     THEN Thrown(<<"exchangeAuthorization failed">>, <<>>, dropped, <<exchange>>)
     ELSE Returned(<< [ oauthTokens |-> env.ex, oauthStep |-> "complete" ] >>,
                   saveTokens(dropped, ServerUrl, Val(env.ex)),
                   <<exchange>>)

\* a token step that sends the resource whatever the authorization server is
token_request_AlwaysResource(st, sto, env) ==
  LET verifier == codeVerifier(sto, ServerUrl)
      metadata == Val(getServerMetadata(sto, ServerUrl))
      exchange == Call("exchangeAuthorization", metadata.authorization_endpoint,
                       st.resource, st.authorizationCode, verifier)
  IN IF Falsy(verifier)
     THEN Thrown(<<"No code verifier saved for session">>, <<>>, sto, <<>>)
     ELSE IF ~IsSome(env.ex)
     THEN Thrown(<<"exchangeAuthorization failed">>, <<>>, sto, <<exchange>>)
     ELSE Returned(<< [ oauthTokens |-> env.ex, oauthStep |-> "complete" ] >>,
                   saveTokens(sto, ServerUrl, Val(env.ex)),
                   <<exchange>>)

token_request(st, sto, env) ==
  LET verifier == codeVerifier(sto, ServerUrl)
      metadata == Val(getServerMetadata(sto, ServerUrl))
      isAzureAD == isAzureADEndpoint(metadata)
      resource == IF ~isAzureAD /\ IsSome(st.resource) THEN st.resource ELSE None
      exchange == Call("exchangeAuthorization", metadata.authorization_endpoint, resource,
                       st.authorizationCode, verifier)
  IN IF Falsy(verifier)
     THEN Thrown(<<"No code verifier saved for session">>, <<>>, sto, <<>>)
     ELSE IF ~IsSome(env.ex)
     THEN Thrown(<<"exchangeAuthorization failed">>, <<>>, sto, <<exchange>>)
     ELSE Returned(<< [ oauthTokens |-> env.ex, oauthStep |-> "complete" ] >>,
                   saveTokens(sto, ServerUrl, Val(env.ex)),
                   <<exchange>>)

complete(st, sto, env) == Returned(<<>>, sto, <<>>)

\* a table whose complete step can be executed
canTransition_CompleteOpen(step, st, sto) ==
  CASE step = "metadata_discovery" -> TRUE
    [] step = "client_registration" -> IsSome(st.oauthMetadata)
    [] step = "authorization_redirect" ->
         IsSome(st.oauthMetadata) /\ IsSome(st.oauthClientInfo)
    [] step = "authorization_code" -> TRUE
    [] step = "token_request" ->
         /\ ~Falsy(st.authorizationCode)
         /\ IsSome(getServerMetadata(sto, ServerUrl))
         /\ IsSome(clientInformation(sto, ServerUrl))
    [] step = "complete" -> TRUE

\* a table that refuses to register when a client is already there
canTransition_UnregisteredOnly(step, st, sto) ==
  CASE step = "metadata_discovery" -> TRUE
    [] step = "client_registration" ->
         /\ IsSome(st.oauthMetadata)
         /\ ~IsSome(st.oauthClientInfo)
         /\ ~IsSome(clientInformation(sto, ServerUrl))
    [] step = "authorization_redirect" ->
         IsSome(st.oauthMetadata) /\ IsSome(st.oauthClientInfo)
    [] step = "authorization_code" -> TRUE
    [] step = "token_request" ->
         /\ ~Falsy(st.authorizationCode)
         /\ IsSome(getServerMetadata(sto, ServerUrl))
         /\ IsSome(clientInformation(sto, ServerUrl))
    [] step = "complete" -> FALSE

\* a table whose token_request guard looks at the state's copies
canTransition_ReadsState(step, st, sto) ==
  CASE step = "metadata_discovery" -> TRUE
    [] step = "client_registration" -> IsSome(st.oauthMetadata)
    [] step = "authorization_redirect" ->
         IsSome(st.oauthMetadata) /\ IsSome(st.oauthClientInfo)
    [] step = "authorization_code" -> TRUE
    [] step = "token_request" ->
         /\ ~Falsy(st.authorizationCode)
         /\ IsSome(st.oauthMetadata)
         /\ IsSome(st.oauthClientInfo)
    [] step = "complete" -> FALSE

canTransition(step, st, sto) ==
  CASE step = "metadata_discovery" -> TRUE
    [] step = "client_registration" -> IsSome(st.oauthMetadata)
    [] step = "authorization_redirect" ->
         IsSome(st.oauthMetadata) /\ IsSome(st.oauthClientInfo)
    [] step = "authorization_code" -> TRUE
    [] step = "token_request" ->
         /\ ~Falsy(st.authorizationCode)
         /\ IsSome(getServerMetadata(sto, ServerUrl))
         /\ IsSome(clientInformation(sto, ServerUrl))
    [] step = "complete" -> FALSE

execute(step, st, sto, env) ==
  CASE step = "metadata_discovery" -> metadata_discovery(st, sto, env)
    [] step = "client_registration" -> client_registration(st, sto, env)
    [] step = "authorization_redirect" -> authorization_redirect(st, sto, env)
    [] step = "authorization_code" -> authorization_code(st, sto, env)
    [] step = "token_request" -> token_request(st, sto, env)
    [] step = "complete" -> complete(st, sto, env)

(***************************************************************************)
(* The driver.  executeStep constructs a provider (which records the       *)
(* server URL), checks the guard of the current step and runs its execute. *)
(* The result is the caller's state after the updateState calls, the       *)
(* storage, and a record of the call: the step, how it ended, the error    *)
(* thrown, the remote calls made, the number of updateState calls and the  *)
(* answers the environment gave.                                           *)
(***************************************************************************)
CallRecord(op, step, result, error, calls, updates, env) ==
  [ op |-> op, step |-> step, result |-> result, error |-> error,
    calls |-> calls, updates |-> updates, env |-> env ]

\* a driver whose guard failure returns without throwing
executeStep_SilentGuard(st, sto, env) ==
  LET provider == NewProvider(sto, ServerUrl)
      step == st.oauthStep
  IN IF ~canTransition(step, st, provider)
     THEN [ state |-> st, storage |-> provider,
            last |-> CallRecord("executeStep", step, "ok", <<>>, <<>>, 0, NoEnv) ]
     ELSE LET r == execute(step, st, provider, env)
          IN [ state |-> ApplyUpdates(st, r.updates), storage |-> r.storage,
               last |-> CallRecord("executeStep", step,
                                   IF r.threw THEN "throw" ELSE "ok",
                                   r.error, r.calls, Len(r.updates), env) ]

executeStep(st, sto, env) ==
  LET provider == NewProvider(sto, ServerUrl)
      step == st.oauthStep
  IN IF ~canTransition(step, st, provider)
     THEN [ state |-> st, storage |-> provider,
            last |-> CallRecord("executeStep", step, "guard",
                                <<"Cannot transition from", step>>, <<>>, 0,
                                NoEnv) ]
     ELSE LET r == execute(step, st, provider, env)
          IN [ state |-> ApplyUpdates(st, r.updates), storage |-> r.storage,
               last |-> CallRecord("executeStep", step,
                                   IF r.threw THEN "throw" ELSE "ok",
                                   r.error, r.calls, Len(r.updates), env) ]

\* OAuthStateMachine.executeStep on the caller's current state
Step(step) ==
  /\ state.oauthStep = step
  /\ \E env \in EnvsOf(step) :
       LET r == executeStep(state, storage, env)
       IN /\ state' = r.state
          /\ storage' = r.storage
          /\ last' = r.last
  /\ UNCHANGED <<pc, regCalls, probe, providerCall, autoRedirect, input,
               authServer, validation, proxy, inflight, harness>>

MetadataDiscovery == Step("metadata_discovery")

ClientRegistration == Step("client_registration")

AuthorizationRedirect == Step("authorization_redirect")

AuthorizationCode == Step("authorization_code")

TokenRequest == Step("token_request")

Complete == Step("complete")

NoCall(op) == CallRecord(op, "none", "none", <<>>, <<>>, 0, NoEnv)

\* the caller supplies an authorization code: state.authorizationCode = code
SetAuthorizationCode ==
  /\ \E code \in Codes :
       /\ code # state.authorizationCode
       /\ state' = [state EXCEPT !.authorizationCode = code]
  /\ last' = NoCall("setAuthorizationCode")
  /\ UNCHANGED <<storage, pc, regCalls, probe, providerCall, autoRedirect, input,
               authServer, validation, proxy, inflight, harness>>

\* the caller starts a new flow run over the same store
NewFlow ==
  /\ state # EMPTY_DEBUGGER_STATE
  /\ state' = EMPTY_DEBUGGER_STATE
  /\ last' = NoCall("newFlow")
  /\ UNCHANGED <<storage, pc, regCalls, probe, providerCall, autoRedirect, input,
               authServer, validation, proxy, inflight, harness>>

\* the caller constructs a provider and calls clear()
ProviderClear ==
  /\ storage' = clear(NewProvider(storage, ServerUrl), ServerUrl)
  /\ storage' # storage
  /\ last' = NoCall("clear")
  /\ UNCHANGED <<state, pc, regCalls, probe, providerCall, autoRedirect, input,
               authServer, validation, proxy, inflight, harness>>

Init ==
  /\ state = EMPTY_DEBUGGER_STATE
  /\ storage = EmptyStorage
  /\ last = NoCall("init")
  /\ pc = "idle"
  /\ regCalls = 0
  /\ probe = [input |-> None, result |-> "unset"]
  /\ providerCall = NoProviderCall
  /\ autoRedirect = FALSE
  /\ input = state
  /\ authServer = NewMockAuthServer
  /\ validation = NewValidationServer(FALSE)
  /\ proxy = NewProxy
  /\ inflight = <<>>
  /\ harness = NewHarness

Next ==
  \/ MetadataDiscovery
  \/ ClientRegistration
  \/ AuthorizationRedirect
  \/ AuthorizationCode
  \/ TokenRequest
  \/ Complete
  \/ SetAuthorizationCode
  \/ NewFlow
  \/ ProviderClear

Spec == Init /\ [][Next]_vars

(***************************************************************************)
(* isAzureADEndpoint on its own: one call per input.                       *)
(***************************************************************************)
InitAzure ==
  /\ state = EMPTY_DEBUGGER_STATE
  /\ storage = EmptyStorage
  /\ last = NoCall("init")
  /\ pc = "idle"
  /\ regCalls = 0
  /\ ProbeInit
  /\ providerCall = NoProviderCall
  /\ autoRedirect = FALSE
  /\ input = state
  /\ authServer = NewMockAuthServer
  /\ validation = NewValidationServer(FALSE)
  /\ proxy = NewProxy
  /\ inflight = <<>>
  /\ harness = NewHarness

NextAzure == ProbeAzure

SpecAzure == InitAzure /\ [][NextAzure]_vars

(***************************************************************************)
(* The CLI driver, CLIAuthFlowTester.runFullFlow in manual mode: a fresh   *)
(* state over a fresh MemoryStorage, then one executeStep call per named   *)
(* step.  pc is the position in runFullFlow; "done" is return true and     *)
(* "failed" is the catch block (return false).  Each call runs the         *)
(* transition of state.oauthStep, whatever the step name it was given, and *)
(* a failure is stored in state.latestError before it is rethrown.         *)
(* regCalls counts the registerClient calls of the run.                    *)
(***************************************************************************)
RegisterCalls(calls) ==
  Cardinality({ i \in 1..Len(calls) : calls[i].op = "registerClient" })

\* a wrapper that rethrows without recording the error
CliExecuteStep_NoMirror(from, to) ==
  /\ pc = from
  /\ \E env \in EnvsOf(state.oauthStep) :
       LET r == executeStep(state, storage, env)
       IN /\ storage' = r.storage
          /\ last' = r.last
          /\ regCalls' = regCalls + RegisterCalls(r.last.calls)
          /\ state' = r.state
          /\ pc' = IF r.last.result = "ok" THEN to ELSE "failed"
  /\ UNCHANGED <<probe, providerCall, autoRedirect, input,
               authServer, validation, proxy, inflight, harness>>

CliExecuteStep(from, to) ==
  /\ pc = from
  /\ \E env \in EnvsOf(state.oauthStep) :
       LET r == executeStep(state, storage, env)
       IN /\ storage' = r.storage
          /\ last' = r.last
          /\ regCalls' = regCalls + RegisterCalls(r.last.calls)
          /\ IF r.last.result = "ok"
             THEN /\ state' = r.state
                  /\ pc' = to
             ELSE /\ state' = [r.state EXCEPT !.latestError = Some(r.last.error)]
                  /\ pc' = "failed"
  /\ UNCHANGED <<probe, providerCall, autoRedirect, input,
               authServer, validation, proxy, inflight, harness>>

\* the code typed at the prompt, trimmed, is put into the state
PromptForAuthCode ==
  /\ pc = "prompt"
  /\ ~autoRedirect
  /\ \E typed \in { Val(c) : c \in Codes \ {None} } :
       state' = [state EXCEPT !.authorizationCode = Some(Trim(typed))]
  /\ pc' = "authorization_code"
  /\ last' = NoCall("promptForAuthCode")
  /\ UNCHANGED <<storage, regCalls, probe, providerCall, autoRedirect, input,
               authServer, validation, proxy, inflight, harness>>

CliMetadataDiscovery == CliExecuteStep("metadata_discovery", "client_registration")

CliClientRegistration == CliExecuteStep("client_registration", "authorization_redirect")

CliAuthorizationRedirect == CliExecuteStep("authorization_redirect", "prompt")

CliAuthorizationCode == CliExecuteStep("authorization_code", "token_request")

CliTokenRequest == CliExecuteStep("token_request", "validate_token")

CliValidateToken == CliExecuteStep("validate_token", "done")

InitCli ==
  /\ state = EMPTY_DEBUGGER_STATE
  /\ storage = EmptyStorage
  /\ last = NoCall("init")
  /\ pc = "metadata_discovery"
  /\ regCalls = 0
  /\ probe = [input |-> None, result |-> "unset"]
  /\ providerCall = NoProviderCall
  /\ autoRedirect = FALSE
  /\ input = state
  /\ authServer = NewMockAuthServer
  /\ validation = NewValidationServer(FALSE)
  /\ proxy = NewProxy
  /\ inflight = <<>>
  /\ harness = NewHarness

NextCli ==
  \/ CliMetadataDiscovery
  \/ CliClientRegistration
  \/ CliAuthorizationRedirect
  \/ PromptForAuthCode
  \/ CliAuthorizationCode
  \/ CliTokenRequest
  \/ CliValidateToken

SpecCli == InitCli /\ [][NextCli]_vars

(***************************************************************************)
(* The CLI driver in auto-redirect mode: promptForAuthCode hands over to    *)
(* fetchAuthCodeFromRedirect, which sends one GET to the authorization URL  *)
(* and reads the code out of the Location header of a redirect.  The        *)
(* promise it returns is resolved with the code or rejected; an exception   *)
(* thrown inside the response callback is caught by nobody and ends the     *)
(* process (pc = "crashed").                                                *)
(***************************************************************************)
HttpStatuses == { 200, 300, 302, 399, 400 }

\* Location headers: none, the empty one, absolute and relative ones with a
\* code, with an empty code, with a blank code, without a code, and one that
\* new URL() rejects
LocationHeaders ==
  { None,
    Some(<<>>),
    Some(<<Scheme, "app", ".", "example", ".", "com", "/", "callback", "?", "code=", "c">>),
    Some(<<"/", "callback", "?", "state=", "s", "&", "code=", "c", "c">>),
    Some(<<"?", "code=", " ">>),
    Some(<<"/", "callback", "?", "code=", "&", "state=", "s">>),
    Some(<<"/", "callback", "?", "error=", "access_denied">>),
    Some(<<Scheme>>) }

\* the answers to the GET: a connection error or a response
HttpOutcomes ==
  { [kind |-> "error", status |-> 0, location |-> None] } \cup
  { [kind |-> "response", status |-> st, location |-> loc] :
      st \in HttpStatuses, loc \in LocationHeaders }

\* new URL(location, base) succeeds
CanResolve(location, base) ==
  IF location # <<>> /\ location[1] = Scheme THEN IsValidUrl(location) ELSE TRUE

\* the URL without its query
WithoutSearch(url) ==
  IF \E i \in 1..Len(url) : url[i] = "?"
  THEN SubSeq(url, 1, (CHOOSE i \in 1..Len(url) :
                         url[i] = "?" /\ \A j \in 1..(i - 1) : url[j] # "?") - 1)
  ELSE url

\* new URL(location, base).href
ResolveLocation(location, base) ==
  IF location = <<>> THEN NewURL(base)
  ELSE IF location[1] = Scheme THEN NewURL(location)
  ELSE IF location[1] = "/" THEN UrlOrigin(base) \o location
  ELSE IF location[1] = "?" THEN WithoutSearch(NewURL(base)) \o location
  ELSE UrlOrigin(base) \o <<"/">> \o location

\* the tokens of s from position i up to the next "&"
RECURSIVE ParamValue(_, _)
ParamValue(s, i) ==
  IF i > Len(s) \/ s[i] = "&" THEN <<>>
  ELSE <<s[i]>> \o ParamValue(s, i + 1)

\* url.searchParams.get(name): the value of the first parameter of that name
SearchParam(url, name) ==
  LET places == { i \in 2..Len(url) :
                    /\ url[i] = name
                    /\ url[i - 1] \in {"?", "&"}
                    /\ \E q \in 1..(i - 1) : url[q] = "?" }
  IN IF places = {} THEN None
     ELSE LET first == CHOOSE i \in places : \A j \in places : i <= j
          IN Some(ParamValue(url, first + 1))

\* the probe: how the promise of fetchAuthCodeFromRedirect ends for an answer
\* to its GET ("manual" is the catch block: new URL(authUrl) threw)
fetchAuthCodeFromRedirect(authUrl, response) ==
  LET get == Call("GET", Some(authUrl), None, None, None)
      outcome(kind, code, error, calls) ==
        [ kind |-> kind, code |-> code, error |-> error, calls |-> calls ]
  IN IF ~IsValidUrl(authUrl)
     THEN outcome("manual", None, <<"Invalid URL">>, <<>>)
     ELSE IF response.kind = "error"
     THEN outcome("reject", None, <<"request error">>, <<get>>)
     ELSE IF /\ response.status >= 300
             /\ response.status < 400
             /\ ~Falsy(response.location)
     THEN IF ~CanResolve(Val(response.location), authUrl)
          THEN outcome("crash", None, <<"Invalid URL">>, <<get>>)
          ELSE LET redirectUrl == ResolveLocation(Val(response.location), authUrl)
                   code == SearchParam(redirectUrl, "code=")
               IN IF ~Falsy(code)
                  THEN outcome("resolve", code, <<>>, <<get>>)
                  ELSE outcome("reject", None,
                               <<"No authorization code found in the redirect URL">>,
                               <<get>>)
     ELSE outcome("reject", None, <<"Expected redirect, got status code">>, <<get>>)

\* promptForAuthCode in auto-redirect mode, and what runFullFlow does with its
\* result: the code goes into the state, a rejection goes to the catch block
\* of runFullFlow
FetchAuthCodeFromRedirect ==
  /\ pc = "prompt"
  /\ autoRedirect
  /\ \E response \in HttpOutcomes :
       LET authUrl == Val(state.authorizationUrl).endpoint
           r == fetchAuthCodeFromRedirect(authUrl, response)
           record(code) ==
             CallRecord("fetchAuthCodeFromRedirect", "none", r.kind, r.error, r.calls, 0,
                        [NoEnv EXCEPT !.http = Some(response)])
       IN CASE r.kind = "resolve" ->
                 /\ state' = [state EXCEPT !.authorizationCode = r.code]
                 /\ pc' = "authorization_code"
                 /\ last' = record(r.code)
            [] r.kind = "reject" ->
                 /\ state' = state
                 /\ pc' = "failed"
                 /\ last' = record(None)
            [] r.kind = "crash" ->
                 /\ state' = state
                 /\ pc' = "crashed"
                 /\ last' = record(None)
            [] r.kind = "manual" ->
                 \E typed \in Strings(MaxCodeLen) :
                   /\ state' = [state EXCEPT !.authorizationCode = Some(Trim(typed))]
                   /\ pc' = "authorization_code"
                   /\ last' = record(Some(Trim(typed)))
  /\ UNCHANGED <<storage, regCalls, probe, providerCall, autoRedirect, input,
               authServer, validation, proxy, inflight, harness>>

InitCliAuto ==
  /\ state = EMPTY_DEBUGGER_STATE
  /\ storage = EmptyStorage
  /\ last = NoCall("init")
  /\ pc = "metadata_discovery"
  /\ regCalls = 0
  /\ probe = [input |-> None, result |-> "unset"]
  /\ providerCall = NoProviderCall
  /\ autoRedirect = TRUE
  /\ input = state
  /\ authServer = NewMockAuthServer
  /\ validation = NewValidationServer(FALSE)
  /\ proxy = NewProxy
  /\ inflight = <<>>
  /\ harness = NewHarness

NextCliAuto ==
  \/ CliMetadataDiscovery
  \/ CliClientRegistration
  \/ CliAuthorizationRedirect
  \/ FetchAuthCodeFromRedirect
  \/ CliAuthorizationCode
  \/ CliTokenRequest
  \/ CliValidateToken

SpecCliAuto == InitCliAuto /\ [][NextCliAuto]_vars

(***************************************************************************)
(* One executeStep call on its own.  The state is an argument of            *)
(* executeStep and the store is whatever earlier users of the provider left *)
(* in it, so a call can meet any step with any of the fields its guards and *)
(* transitions read, over any combination of persisted records.            *)
(***************************************************************************)
OAuthStep ==
  { "metadata_discovery", "client_registration", "authorization_redirect",
    "authorization_code", "token_request", "complete" }

PlainMetadata == [authorization_endpoint |-> Some(PlainEndpoint)]

\* the states a caller can pass: any step, with or without the discovered
\* metadata, the client information and an authorization code
CallerStates ==
  { [ EMPTY_DEBUGGER_STATE EXCEPT !.oauthStep = step,
                                  !.oauthMetadata = metadata,
                                  !.oauthClientInfo = clientInfo,
                                  !.authorizationCode = code ] :
      step \in OAuthStep,
      metadata \in { None, Some(PlainMetadata) },
      clientInfo \in { None, Some([client_id |-> "client-1"]) },
      code \in Codes }

\* the store after a provider saved the records that are given
SavedStore(clientInfo, verifier, metadata, bundle) ==
  LET s0 == NewProvider(EmptyStorage, ServerUrl)
      s1 == IF IsSome(clientInfo)
            THEN saveClientInformation(s0, ServerUrl, Val(clientInfo)) ELSE s0
      s2 == IF IsSome(verifier) THEN saveCodeVerifier(s1, ServerUrl, Val(verifier)) ELSE s1
      s3 == IF IsSome(metadata) THEN saveServerMetadata(s2, ServerUrl, Val(metadata)) ELSE s2
  IN IF IsSome(bundle) THEN saveTokens(s3, ServerUrl, Val(bundle)) ELSE s3

ProviderStores ==
  { SavedStore(clientInfo, verifier, metadata, bundle) :
      clientInfo \in { None, Some([client_id |-> "client-1"]) },
      verifier \in { None, Some(<<"verifier-1">>) },
      metadata \in { None, Some(PlainMetadata) },
      bundle \in { None, Some([access_token |-> "token-1"]) } }

InitCall ==
  /\ state \in CallerStates
  /\ storage \in ProviderStores
  /\ last = NoCall("init")
  /\ pc = "call"
  /\ regCalls = 0
  /\ probe = [input |-> None, result |-> "unset"]
  /\ providerCall = NoProviderCall
  /\ autoRedirect = FALSE
  /\ input = state
  /\ authServer = NewMockAuthServer
  /\ validation = NewValidationServer(FALSE)
  /\ proxy = NewProxy
  /\ inflight = <<>>
  /\ harness = NewHarness

\* stateMachine.executeStep(state); input keeps the argument of the call
CallExecuteStep ==
  /\ pc = "call"
  /\ \E env \in EnvsOf(state.oauthStep) :
       LET r == executeStep(state, storage, env)
       IN /\ state' = r.state
          /\ storage' = r.storage
          /\ last' = r.last
  /\ pc' = "returned"
  /\ input' = state
  /\ UNCHANGED <<regCalls, probe, providerCall, autoRedirect,
               authServer, validation, proxy, inflight, harness>>

\* the caller runs the step once more with the state it passed before
RerunExecuteStep ==
  /\ pc = "returned"
  /\ last.result = "ok"
  /\ \E env \in EnvsOf(input.oauthStep) :
       LET r == executeStep(input, storage, env)
       IN /\ state' = r.state
          /\ storage' = r.storage
          /\ last' = r.last
  /\ pc' = "rerun"
  /\ UNCHANGED <<regCalls, probe, providerCall, autoRedirect, input,
               authServer, validation, proxy, inflight, harness>>

NextCall == CallExecuteStep

SpecCall == InitCall /\ [][NextCall]_vars

\* a call and, when it succeeded, the same call once more
NextRerun ==
  \/ CallExecuteStep
  \/ RerunExecuteStep

SpecRerun == InitCall /\ [][NextRerun]_vars

(***************************************************************************)
(* The provider on its own: callers construct providers for two servers     *)
(* over one store and call their methods in any order.  A method runs on a  *)
(* provider that was constructed before; the flows of the other server save *)
(* one client and one token bundle.                                         *)
(***************************************************************************)
SavedValues(serverUrl, values) ==
  IF serverUrl = ServerUrl THEN values ELSE { CHOOSE v \in values : TRUE }

Constructed == IsSome(getItem(storage, BareKey(SESSION_KEYS.SERVER_URL)))

\* new DebugInspectorOAuthClientProvider(serverUrl, storage)
ConstructProvider ==
  /\ \E serverUrl \in Servers :
       /\ storage' = NewProvider(storage, serverUrl)
       /\ providerCall' = ProviderCall(Some(serverUrl), "constructor", None, None)
  /\ UNCHANGED <<state, last, pc, regCalls, probe, autoRedirect, input,
               authServer, validation, proxy, inflight, harness>>

ProviderSaveClientInformation ==
  /\ Constructed
  /\ \E serverUrl \in Servers :
       \E info \in SavedValues(serverUrl, ClientInfos) :
         /\ storage' = saveClientInformation(storage, serverUrl, info)
         /\ providerCall' =
              ProviderCall(Some(serverUrl), "saveClientInformation", Some(info), None)
  /\ UNCHANGED <<state, last, pc, regCalls, probe, autoRedirect, input,
               authServer, validation, proxy, inflight, harness>>

ProviderClientInformation ==
  /\ Constructed
  /\ \E serverUrl \in Servers :
       providerCall' = ProviderCall(Some(serverUrl), "clientInformation", None,
                                    clientInformation(storage, serverUrl))
  /\ UNCHANGED <<state, storage, last, pc, regCalls, probe, autoRedirect, input,
               authServer, validation, proxy, inflight, harness>>

ProviderSaveTokens ==
  /\ Constructed
  /\ \E serverUrl \in Servers :
       \E bundle \in SavedValues(serverUrl, TokenBundles) :
         /\ storage' = saveTokens(storage, serverUrl, bundle)
         /\ providerCall' = ProviderCall(Some(serverUrl), "saveTokens", Some(bundle), None)
  /\ UNCHANGED <<state, last, pc, regCalls, probe, autoRedirect, input,
               authServer, validation, proxy, inflight, harness>>

ProviderTokens ==
  /\ Constructed
  /\ \E serverUrl \in Servers :
       providerCall' = ProviderCall(Some(serverUrl), "tokens", None,
                                    tokens(storage, serverUrl))
  /\ UNCHANGED <<state, storage, last, pc, regCalls, probe, autoRedirect, input,
               authServer, validation, proxy, inflight, harness>>

ProviderSaveCodeVerifier ==
  /\ Constructed
  /\ \E serverUrl \in Servers :
       \E verifier \in SavedValues(serverUrl, Verifiers) :
         /\ storage' = saveCodeVerifier(storage, serverUrl, verifier)
         /\ providerCall' =
              ProviderCall(Some(serverUrl), "saveCodeVerifier", Some(verifier), None)
  /\ UNCHANGED <<state, last, pc, regCalls, probe, autoRedirect, input,
               authServer, validation, proxy, inflight, harness>>

\* a result of None is the throw "No code verifier saved for session"
ProviderCodeVerifier ==
  /\ Constructed
  /\ \E serverUrl \in Servers :
       providerCall' = ProviderCall(Some(serverUrl), "codeVerifier", None,
                                    codeVerifier(storage, serverUrl))
  /\ UNCHANGED <<state, storage, last, pc, regCalls, probe, autoRedirect, input,
               authServer, validation, proxy, inflight, harness>>

ProviderSaveServerMetadata ==
  /\ Constructed
  /\ \E serverUrl \in Servers :
       /\ storage' = saveServerMetadata(storage, serverUrl, PlainMetadata)
       /\ providerCall' =
            ProviderCall(Some(serverUrl), "saveServerMetadata", Some(PlainMetadata), None)
  /\ UNCHANGED <<state, last, pc, regCalls, probe, autoRedirect, input,
               authServer, validation, proxy, inflight, harness>>

ProviderGetServerMetadata ==
  /\ Constructed
  /\ \E serverUrl \in Servers :
       providerCall' = ProviderCall(Some(serverUrl), "getServerMetadata", None,
                                    getServerMetadata(storage, serverUrl))
  /\ UNCHANGED <<state, storage, last, pc, regCalls, probe, autoRedirect, input,
               authServer, validation, proxy, inflight, harness>>

\* clear() of a provider of the base class
ProviderBaseClear ==
  /\ Constructed
  /\ \E serverUrl \in Servers :
       /\ storage' = InspectorOAuthClientProvider_clear(storage, serverUrl)
       /\ providerCall' =
            ProviderCall(Some(serverUrl), "clear", Some("InspectorOAuthClientProvider"), None)
  /\ UNCHANGED <<state, last, pc, regCalls, probe, autoRedirect, input,
               authServer, validation, proxy, inflight, harness>>

\* clear() of a provider of the debug class
ProviderDebugClear ==
  /\ Constructed
  /\ \E serverUrl \in Servers :
       /\ storage' = clear(storage, serverUrl)
       /\ providerCall' =
            ProviderCall(Some(serverUrl), "clear",
                         Some("DebugInspectorOAuthClientProvider"), None)
  /\ UNCHANGED <<state, last, pc, regCalls, probe, autoRedirect, input,
               authServer, validation, proxy, inflight, harness>>

NextProvider ==
  \/ ConstructProvider
  \/ ProviderSaveClientInformation
  \/ ProviderClientInformation
  \/ ProviderSaveTokens
  \/ ProviderTokens
  \/ ProviderSaveCodeVerifier
  \/ ProviderCodeVerifier
  \/ ProviderSaveServerMetadata
  \/ ProviderGetServerMetadata
  \/ ProviderBaseClear
  \/ ProviderDebugClear

SpecProvider == Init /\ [][NextProvider]_vars

(***************************************************************************)
(* The mock authorization server of the compliance harness.  It issues one *)
(* fixed authorization code and keeps the authorization request under that *)
(* code, so authorizationRequests holds one request or none.  A            *)
(* code_verifier of the token body is a JSON value: the handler hashes it,  *)
(* and hash.update takes a string and throws a TypeError for an array.     *)
(* An exception that leaves a handler is answered by Express with 500.     *)
(***************************************************************************)
AUTH_CONSTANTS ==
  [ FIXED_AUTH_CODE |-> <<"test_auth_code_123">>,
    FIXED_ACCESS_TOKEN |-> <<"test_access_token_abc">>,
    FIXED_REFRESH_TOKEN |-> <<"test_refresh_token_xyz">> ]

Response(status, error, access_token) ==
  [ status |-> status, error |-> error, access_token |-> access_token ]

RedirectUris == { None, Some(<<"http://localhost:3000/callback">>),
                  Some(<<"http://localhost:3000/other">>) }

\* the query strings of GET /authorize
AuthorizeQueries ==
  { [ response_type |-> t, redirect_uri |-> u, code_challenge |-> c,
      code_challenge_method |-> m ] :
      t \in {"code", "token"}, u \in RedirectUris,
      c \in { None, Some(S256(<<"verifier-1">>)) }, m \in {"S256", "plain"} }

\* the values a body can carry as code_verifier
VerifierValues ==
  { [type |-> "undefined", value |-> <<>>], [type |-> "string", value |-> <<>>],
    [type |-> "array", value |-> <<"verifier-1">>] } \cup
  { [type |-> "string", value |-> v] : v \in Verifiers }

\* the bodies of POST /token: the fields a grant type does not read are absent
TokenBodies ==
  { [ grant_type |-> "authorization_code", code |-> c, redirect_uri |-> u,
      code_verifier |-> v, refresh_token |-> None ] :
      c \in { None, Some(AUTH_CONSTANTS.FIXED_AUTH_CODE), Some(<<"test_auth_code_124">>) },
      u \in RedirectUris, v \in VerifierValues } \cup
  { [ grant_type |-> g, code |-> None, redirect_uri |-> None,
      code_verifier |-> [type |-> "undefined", value |-> <<>>], refresh_token |-> r ] :
      g \in {"refresh_token", "password"},
      r \in { None, Some(AUTH_CONSTANTS.FIXED_REFRESH_TOKEN) } }

\* validatePKCE: false for a falsy argument, else the S256 comparison
validatePKCE(code_verifier, code_challenge) ==
  IF \/ code_verifier.type = "undefined"
     \/ code_verifier.type = "string" /\ code_verifier.value = <<>>
     \/ Falsy(code_challenge)
  THEN [threw |-> FALSE, valid |-> FALSE]
  ELSE IF code_verifier.type # "string"
  THEN [threw |-> TRUE, valid |-> FALSE]
  ELSE [threw |-> FALSE, valid |-> Some(S256(code_verifier.value)) = code_challenge]

\* GET /authorize
GetAuthorize ==
  /\ \E query \in AuthorizeQueries :
       LET stored == Some([ redirectUri |-> query.redirect_uri,
                            codeChallenge |-> query.code_challenge ])
       IN authServer' =
            IF query.response_type # "code"
            THEN [authServer EXCEPT
                    !.request = Some(query),
                    !.response = Some(Response(400, Some("unsupported_response_type"), None))]
            ELSE IF Falsy(query.code_challenge) \/ query.code_challenge_method # "S256"
            THEN [authServer EXCEPT
                    !.request = Some(query),
                    !.response = Some(Response(400, Some("invalid_request"), None))]
            ELSE [ authorizationRequests |-> stored,
                   request |-> Some(query),
                   response |-> IF IsSome(query.redirect_uri)
                                THEN Some(Response(302, None, None))
                                ELSE Some(Response(500, None, None)) ]
  /\ UNCHANGED <<engine, validation, proxy, inflight, harness>>

\* a token endpoint that keeps the authorization request after the exchange
PostToken_KeepsRequest ==
  /\ \E body \in TokenBodies :
       LET authRequest == authServer.authorizationRequests
           invalid_grant == Response(400, Some("invalid_grant"), None)
           issued == Response(200, None, Some(AUTH_CONSTANTS.FIXED_ACCESS_TOKEN))
           answer ==
             IF body.grant_type = "authorization_code"
             THEN IF body.code # Some(AUTH_CONSTANTS.FIXED_AUTH_CODE) THEN invalid_grant
                  ELSE IF ~IsSome(authRequest) THEN invalid_grant
                  ELSE IF body.redirect_uri # Val(authRequest).redirectUri THEN invalid_grant
                  ELSE LET pkce == validatePKCE(body.code_verifier,
                                                Val(authRequest).codeChallenge)
                       IN IF pkce.threw THEN Response(500, None, None)
                          ELSE IF ~pkce.valid THEN invalid_grant
                          ELSE issued
             ELSE IF body.grant_type = "refresh_token"
             THEN IF body.refresh_token # Some(AUTH_CONSTANTS.FIXED_REFRESH_TOKEN)
                  THEN invalid_grant
                  ELSE issued
             ELSE Response(400, Some("unsupported_grant_type"), None)
       IN authServer' =
            [ authorizationRequests |->
                authRequest,
              request |-> Some(body),
              response |-> Some(answer) ]
  /\ UNCHANGED <<engine, validation, proxy, inflight, harness>>

\* POST /token
PostToken ==
  /\ \E body \in TokenBodies :
       LET authRequest == authServer.authorizationRequests
           invalid_grant == Response(400, Some("invalid_grant"), None)
           issued == Response(200, None, Some(AUTH_CONSTANTS.FIXED_ACCESS_TOKEN))
           answer ==
             IF body.grant_type = "authorization_code"
             THEN IF body.code # Some(AUTH_CONSTANTS.FIXED_AUTH_CODE) THEN invalid_grant
                  ELSE IF ~IsSome(authRequest) THEN invalid_grant
                  ELSE IF body.redirect_uri # Val(authRequest).redirectUri THEN invalid_grant
                  ELSE LET pkce == validatePKCE(body.code_verifier,
                                                Val(authRequest).codeChallenge)
                       IN IF pkce.threw THEN Response(500, None, None)
                          ELSE IF ~pkce.valid THEN invalid_grant
                          ELSE issued
             ELSE IF body.grant_type = "refresh_token"
             THEN IF body.refresh_token # Some(AUTH_CONSTANTS.FIXED_REFRESH_TOKEN)
                  THEN invalid_grant
                  ELSE issued
             ELSE Response(400, Some("unsupported_grant_type"), None)
       IN authServer' =
            [ authorizationRequests |->
                IF body.grant_type = "authorization_code" /\ answer.status = 200
                THEN None ELSE authRequest,
              request |-> Some(body),
              response |-> Some(answer) ]
  /\ UNCHANGED <<engine, validation, proxy, inflight, harness>>

(***************************************************************************)
(* The validation server of the compliance harness: an MCP endpoint that   *)
(* records what the client under test does.  With authRequired the         *)
(* endpoint stands behind requireBearerAuth with the MockTokenVerifier,     *)
(* which answers 401 to a request without a bearer token the verifier      *)
(* accepts.  The HTTP trace the server also collects is left out.          *)
(***************************************************************************)
MaxRequests == 2

\* MockTokenVerifier.verifyAccessToken does not throw
verifyAccessToken(token) == token = AUTH_CONSTANTS.FIXED_ACCESS_TOKEN

\* GET of the protected-resource metadata: the route exists with authRequired
GetResourceMetadata ==
  /\ validation' =
       IF validation.config.authRequired
       THEN [validation EXCEPT !.clientBehavior.authMetadataRequested = TRUE,
                               !.request = Some([method |-> "metadata", bearer |-> None]),
                               !.response = Some(Response(200, None, None))]
       ELSE [validation EXCEPT !.request = Some([method |-> "metadata", bearer |-> None]),
                               !.response = Some(Response(404, None, None))]
  /\ UNCHANGED <<engine, authServer, proxy, inflight, harness>>

\* POST /mcp with a JSON-RPC message and, possibly, a bearer token
PostMcp ==
  /\ Len(validation.clientBehavior.requestsMade) < MaxRequests
  /\ \E method \in {"initialize", "tools/list"},
        bearer \in { None, Some(AUTH_CONSTANTS.FIXED_ACCESS_TOKEN),
                     Some(<<"test_access_token_abd">>) } :
       LET request == Some([method |-> method, bearer |-> bearer])
           behavior == validation.clientBehavior
           tracked ==
             IF method = "initialize"
             THEN [behavior EXCEPT !.connected = TRUE, !.initialized = TRUE,
                                   !.requestsMade = Append(@, method)]
             ELSE [behavior EXCEPT !.requestsMade = Append(@, method)]
       IN validation' =
            IF /\ validation.config.authRequired
               /\ ~(IsSome(bearer) /\ verifyAccessToken(Val(bearer)))
            THEN [validation EXCEPT
                    !.request = request,
                    !.response = Some(Response(401, Some("invalid_token"), None))]
            ELSE [validation EXCEPT
                    !.clientBehavior = tracked,
                    !.request = request,
                    !.response = Some(Response(200, None, None))]
  /\ UNCHANGED <<engine, authServer, proxy, inflight, harness>>

\* a harness run: a validation server with or without authRequired, the
\* mock authorization server next to it, and a client that sends any request
InitCompat ==
  /\ state = EMPTY_DEBUGGER_STATE
  /\ storage = EmptyStorage
  /\ last = NoCall("init")
  /\ pc = "idle"
  /\ regCalls = 0
  /\ probe = [input |-> None, result |-> "unset"]
  /\ providerCall = NoProviderCall
  /\ autoRedirect = FALSE
  /\ input = state
  /\ authServer = NewMockAuthServer
  /\ validation \in { NewValidationServer(authRequired) : authRequired \in BOOLEAN }
  /\ proxy = NewProxy
  /\ inflight = <<>>
  /\ harness = NewHarness

NextCompat ==
  \/ GetAuthorize
  \/ PostToken
  \/ GetResourceMetadata
  \/ PostMcp

SpecCompat == InitCompat /\ [][NextCompat]_vars

(***************************************************************************)
(* mcpProxy: the handlers it installs on the two transports.  The          *)
(* transports belong to the environment: it delivers messages, settles the *)
(* promise of every transportToServer.send and fires each onclose at most  *)
(* once, in any order.  The proxy takes no onCleanup option: the caller's   *)
(* callback is never called.                                               *)
(***************************************************************************)
MaxMessages == 2

\* a request, a notification and a response of the client
ClientMessages ==
  { [id |-> Some(1), method |-> Some("test/method")],
    [id |-> None, method |-> Some("test/notification")],
    [id |-> Some(7), method |-> None] }

isJSONRPCRequest(message) == IsSome(message.id) /\ IsSome(message.method)

ProxyEvent(name, message) == [name |-> name, message |-> message]

\* a proxy that drops a client message once the server transport has closed
ClientOnMessage_DropsAfterClose ==
  /\ proxy.sentToServer < MaxMessages
  /\ \E message \in ClientMessages \ proxy.pending :
       proxy' = IF proxy.transportToServerClosed
                THEN [proxy EXCEPT !.event = ProxyEvent("client.onmessage", Some(message))]
                ELSE [proxy EXCEPT !.pending = @ \cup {message},
                                   !.sentToServer = @ + 1,
                                   !.event = ProxyEvent("client.onmessage", Some(message))]
  /\ UNCHANGED <<engine, authServer, validation, inflight, harness>>

\* transportToClient.onmessage: the message is passed to transportToServer.send
ClientOnMessage ==
  /\ proxy.sentToServer < MaxMessages
  /\ \E message \in ClientMessages \ proxy.pending :
       proxy' = [proxy EXCEPT !.pending = @ \cup {message},
                              !.sentToServer = @ + 1,
                              !.event = ProxyEvent("client.onmessage", Some(message))]
  /\ UNCHANGED <<engine, authServer, validation, inflight, harness>>

\* the promise of transportToServer.send is fulfilled
SendResolved ==
  /\ \E message \in proxy.pending :
       proxy' = [proxy EXCEPT !.pending = @ \ {message},
                              !.event = ProxyEvent("send.resolved", Some(message))]
  /\ UNCHANGED <<engine, authServer, validation, inflight, harness>>

\* the promise of transportToServer.send is rejected: the catch handler; the
\* error of the response is the server's own JSON-RPC error when the message
\* of the rejection carries one, and code -32001 otherwise
SendRejected ==
  /\ \E message \in proxy.pending, carried \in { None, Some("server error") } :
       LET errorResponse ==
             [ id |-> message.id,
               error |-> IF IsSome(carried) THEN Val(carried) ELSE "-32001" ]
       IN proxy' =
            IF isJSONRPCRequest(message) /\ ~proxy.transportToClientClosed
            THEN [proxy EXCEPT !.pending = @ \ {message},
                               !.sentToClient = Append(@, errorResponse),
                               !.event = ProxyEvent("send.rejected", Some(message))]
            ELSE [proxy EXCEPT !.pending = @ \ {message},
                               !.event = ProxyEvent("send.rejected", Some(message))]
  /\ UNCHANGED <<engine, authServer, validation, inflight, harness>>

\* transportToServer.onmessage: the message is passed to transportToClient.send
ServerOnMessage ==
  /\ Len(proxy.sentToClient) < MaxMessages
  /\ \E message \in { [id |-> Some(1), result |-> "ok"],
                       [id |-> None, method |-> Some("server/notification")] } :
       proxy' = [proxy EXCEPT !.reportedServerSession = TRUE,
                              !.sentToClient = Append(@, message),
                              !.event = ProxyEvent("server.onmessage", Some(message))]
  /\ UNCHANGED <<engine, authServer, validation, inflight, harness>>

\* transportToClient.onclose without the early return: the server transport
\* is closed even after it announced its own close
ClientOnClose_NoEarlyReturn ==
  /\ proxy.fired.client = 0
  /\ proxy' = [proxy EXCEPT !.fired.client = 1,
                            !.transportToClientClosed = TRUE,
                            !.closeCalls.server = @ + 1,
                            !.event = ProxyEvent("client.onclose", None)]
  /\ UNCHANGED <<engine, authServer, validation, inflight, harness>>

\* transportToClient.onclose
ClientOnClose ==
  /\ proxy.fired.client = 0
  /\ proxy' =
       IF proxy.transportToServerClosed
       THEN [proxy EXCEPT !.fired.client = 1,
                          !.event = ProxyEvent("client.onclose", None)]
       ELSE [proxy EXCEPT !.fired.client = 1,
                          !.transportToClientClosed = TRUE,
                          !.closeCalls.server = @ + 1,
                          !.event = ProxyEvent("client.onclose", None)]
  /\ UNCHANGED <<engine, authServer, validation, inflight, harness>>

\* transportToServer.onclose
ServerOnClose ==
  /\ proxy.fired.server = 0
  /\ proxy' =
       IF proxy.transportToClientClosed
       THEN [proxy EXCEPT !.fired.server = 1,
                          !.event = ProxyEvent("server.onclose", None)]
       ELSE [proxy EXCEPT !.fired.server = 1,
                          !.transportToServerClosed = TRUE,
                          !.closeCalls.client = @ + 1,
                          !.event = ProxyEvent("server.onclose", None)]
  /\ UNCHANGED <<engine, authServer, validation, inflight, harness>>

NextProxy ==
  \/ ClientOnMessage
  \/ SendResolved
  \/ SendRejected
  \/ ServerOnMessage
  \/ ClientOnClose
  \/ ServerOnClose

SpecProxy == Init /\ [][NextProxy]_vars

(***************************************************************************)
(* Overlapping executeStep calls.  A caller that does not await a call can *)
(* start another one on the state published so far.  A call runs without   *)
(* interruption up to its first remote request: the provider is            *)
(* constructed, the guard is checked and the step reads the state it was   *)
(* given and the store.  What follows the answer of its last remote        *)
(* request, the provider write and updateState, runs without interruption  *)
(* as well, so a call that makes remote requests is a begin and a later    *)
(* completion; a call that makes none completes where it begins.           *)
(***************************************************************************)
MaxInflight == 2

\* the answers the remote side gives to overlapping calls
OverlapEnvs(step) ==
  { env \in EnvsOf(step) :
      /\ env.prm \in { None, Some([resource |-> ServerUrl,
                                   authorization_servers |-> <<AuthServerA>>]) }
      /\ env.asm.kind \in { "throws", "valid" }
      /\ env.asm.endpoint \in { None, Some(PlainEndpoint) }
      /\ env.reg # Some([client_id |-> "client-2"])
      /\ env.ex # Some([access_token |-> "token-2"]) }

\* the entry of the store a step writes once its remote requests are answered
WrittenKey(step) ==
  getServerSpecificKey(
    SESSION_KEYS[CASE step = "metadata_discovery" -> "SERVER_METADATA"
                   [] step = "client_registration" -> "CLIENT_INFORMATION"
                   [] step = "authorization_redirect" -> "CODE_VERIFIER"
                   [] OTHER -> "TOKENS"],
    ServerUrl)

\* the store after the provider write of a call that did not throw
ApplyWrites(sto, call) ==
  IF call.result.threw THEN sto
  ELSE [sto EXCEPT ![WrittenKey(call.step)] = call.result.storage[WrittenKey(call.step)]]

\* stateMachine.executeStep(state) up to its first remote request
BeginExecuteStep ==
  /\ Len(inflight) < MaxInflight
  /\ \E env \in OverlapEnvs(state.oauthStep) :
       LET provider == NewProvider(storage, ServerUrl)
           step == state.oauthStep
           r == execute(step, state, provider, env)
           whole == executeStep(state, storage, env)
       IN IF ~canTransition(step, state, provider) \/ r.calls = <<>>
          THEN /\ state' = whole.state
               /\ storage' = whole.storage
               /\ last' = whole.last
               /\ inflight' = inflight
          ELSE /\ state' = state
               /\ storage' = provider
               /\ last' = NoCall("executeStep.begin")
               /\ inflight' = Append(inflight,
                                     [ step |-> step, result |-> r, env |-> env ])
  /\ UNCHANGED <<pc, regCalls, probe, providerCall, autoRedirect, input,
               authServer, validation, proxy, harness>>

\* a completion that loses its provider write when another call is in flight
CompleteExecuteStep_LosesWrite ==
  /\ \E i \in 1..Len(inflight) :
       LET call == inflight[i]
           r == call.result
       IN /\ state' = ApplyUpdates(state, r.updates)
          /\ storage' = IF Len(inflight) > 1 THEN storage ELSE ApplyWrites(storage, call)
          /\ last' = CallRecord("executeStep", call.step,
                                IF r.threw THEN "throw" ELSE "ok",
                                r.error, r.calls, Len(r.updates), call.env)
          /\ inflight' = SubSeq(inflight, 1, i - 1) \o
                         SubSeq(inflight, i + 1, Len(inflight))
  /\ UNCHANGED <<pc, regCalls, probe, providerCall, autoRedirect, input,
               authServer, validation, proxy, harness>>

\* the answer to the last remote request of a call arrives: the rest of its
\* execute runs on the store and the published state as they are by now
CompleteExecuteStep ==
  /\ \E i \in 1..Len(inflight) :
       LET call == inflight[i]
           r == call.result
       IN /\ state' = ApplyUpdates(state, r.updates)
          /\ storage' = ApplyWrites(storage, call)
          /\ last' = CallRecord("executeStep", call.step,
                                IF r.threw THEN "throw" ELSE "ok",
                                r.error, r.calls, Len(r.updates), call.env)
          /\ inflight' = SubSeq(inflight, 1, i - 1) \o
                         SubSeq(inflight, i + 1, Len(inflight))
  /\ UNCHANGED <<pc, regCalls, probe, providerCall, autoRedirect, input,
               authServer, validation, proxy, harness>>

\* the caller types the authorization code
TypeAuthorizationCode ==
  /\ state.authorizationCode # Some(<<"c">>)
  /\ state' = [state EXCEPT !.authorizationCode = Some(<<"c">>)]
  /\ last' = NoCall("setAuthorizationCode")
  /\ UNCHANGED <<storage, pc, regCalls, probe, providerCall, autoRedirect, input,
               authServer, validation, proxy, inflight, harness>>

NextOverlap ==
  \/ BeginExecuteStep
  \/ CompleteExecuteStep
  \/ TypeAuthorizationCode

SpecOverlap == Init /\ [][NextOverlap]_vars

(***************************************************************************)
(* The compliance harness: a driver (executeClient under runComplianceTest, *)
(* or ComplianceTestRunner.runScenario) spawns the client under test with  *)
(* the timeout of the scenario, arms a timer of its own for the same time, *)
(* and awaits a promise that the exit event resolves, and the timer or an  *)
(* error event rejects.  While the client runs it sends requests to the    *)
(* validation server.  A terminated process has a status: its exit code,   *)
(* or the signal that killed it and no code.  What follows the await runs  *)
(* in the same turn as the handler that settled the promise.               *)
(***************************************************************************)
\* getValidationResults of the validation server
getValidationResults(server) ==
  LET behavior == server.clientBehavior
      Test(name, pass) == [name |-> name, result |-> IF pass THEN "PASS" ELSE "FAIL"]
  IN <<Test("mcp_initialization", behavior.initialized)>> \o
     (IF server.config.authRequired
      THEN <<Test("auth_metadata_discovery", behavior.authMetadataRequested)>>
      ELSE <<>>) \o
     <<Test("basic_functionality", Len(behavior.requestsMade) > 1)>>

\* a report that does not look at the exit code of the client
ComplianceReport_IgnoresExitCode(results, exitCode, behaviorErrors) ==
  [ overall_result |->
      IF /\ \A i \in 1..Len(results) : results[i].result = "PASS"
         /\ behaviorErrors = 0
      THEN "PASS" ELSE "FAIL",
    tests_passed |-> Cardinality({ i \in 1..Len(results) : results[i].result = "PASS" }),
    tests_failed |-> Cardinality({ i \in 1..Len(results) : results[i].result = "FAIL" })
                     + behaviorErrors,
    tests |-> results ]

\* the report of a run; behaviorErrors is the number of messages the
\* scenario's validateBehavior returned (none under runComplianceTest)
ComplianceReport(results, exitCode, behaviorErrors) ==
  [ overall_result |->
      IF /\ \A i \in 1..Len(results) : results[i].result = "PASS"
         /\ exitCode = 0
         /\ behaviorErrors = 0
      THEN "PASS" ELSE "FAIL",
    tests_passed |-> Cardinality({ i \in 1..Len(results) : results[i].result = "PASS" }),
    tests_failed |-> Cardinality({ i \in 1..Len(results) : results[i].result = "FAIL" })
                     + behaviorErrors,
    tests |-> results ]

\* the driver after the promise h.promise has settled
Settled(h, server) ==
  LET results == getValidationResults(server)
  IN IF h.driver = "executeClient"
     THEN IF h.promise = "rejected" /\ ~h.timedOut
          THEN [h EXCEPT !.outcome = "threw"]
          ELSE LET exitCode == IF h.promise = "rejected" THEN -1 ELSE Val(h.value)
               IN [h EXCEPT !.outcome = "returned",
                            !.exitCode = Some(exitCode),
                            !.report = Some(ComplianceReport(results, exitCode, 0))]
     ELSE IF h.promise = "rejected"
          THEN [h EXCEPT !.outcome = "returned", !.passed = Some(FALSE)]
          ELSE LET report == ComplianceReport(results, Val(h.value), h.behaviorErrors)
               IN [h EXCEPT !.outcome = "returned",
                            !.exitCode = h.value,
                            !.report = Some(report),
                            !.passed = Some(report.overall_result = h.expectedResult)]

\* a process killed by a signal has no exit code
Killed(signal) == Some([code |-> None, signal |-> Some(signal)])

\* the client requests the protected-resource metadata
ClientGetResourceMetadata ==
  /\ harness.process = "running"
  /\ GetResourceMetadata

\* the client sends an MCP request
ClientPostMcp ==
  /\ harness.process = "running"
  /\ PostMcp

\* the client process terminates on its own with an exit status
ClientExits ==
  /\ harness.process = "running"
  /\ \E code \in {0, 1} :
       harness' = [harness EXCEPT !.process = "exited",
                                  !.status = Some([code |-> Some(code), signal |-> None]),
                                  !.exitEvent = TRUE]
  /\ UNCHANGED <<engine, authServer, validation, proxy, inflight>>

\* the client process is killed by a signal that the harness did not send
ClientSignalled ==
  /\ harness.process = "running"
  /\ harness' = [harness EXCEPT !.process = "killed",
                                !.status = Killed("SIGSEGV"),
                                !.exitEvent = TRUE]
  /\ UNCHANGED <<engine, authServer, validation, proxy, inflight>>

\* spawn(..., { timeout }): the child has run for the timeout and is sent
\* the kill signal
SpawnTimeout ==
  /\ harness.process = "running"
  /\ harness' = [harness EXCEPT !.process = "killed",
                                !.status = Killed("SIGTERM"),
                                !.exitEvent = TRUE]
  /\ UNCHANGED <<engine, authServer, validation, proxy, inflight>>

\* the callback of setTimeout: timedOut = true, clientProcess.kill(), reject
TimerCallback ==
  /\ harness.timeoutHandle
  /\ LET killed == IF harness.process = "running"
                   THEN [harness EXCEPT !.process = "killed",
                                        !.status = Killed("SIGTERM"),
                                        !.exitEvent = TRUE]
                   ELSE harness
         fired == [killed EXCEPT !.timeoutHandle = FALSE, !.timedOut = TRUE]
     IN harness' = IF harness.promise = "pending"
                   THEN Settled([fired EXCEPT !.promise = "rejected"], validation)
                   ELSE fired
  /\ UNCHANGED <<engine, authServer, validation, proxy, inflight>>

\* clientProcess.on('exit', (code) => ...): clearTimeout, and resolve(code || 0)
\* unless the timer has fired
ExitEvent ==
  /\ harness.exitEvent
  /\ LET code == Val(harness.status).code
         delivered == [harness EXCEPT !.exitEvent = FALSE, !.timeoutHandle = FALSE]
     IN harness' =
          IF ~harness.timedOut /\ harness.promise = "pending"
          THEN Settled([delivered EXCEPT
                          !.promise = "resolved",
                          !.value = IF IsSome(code) /\ Val(code) # 0 THEN code ELSE Some(0)],
                       validation)
          ELSE delivered
  /\ UNCHANGED <<engine, authServer, validation, proxy, inflight>>

\* clientProcess.on('error', ...): the process could not be spawned
ErrorEvent ==
  /\ harness.process = "running"
  /\ validation.request = None
  /\ harness' =
       LET failed == [harness EXCEPT !.process = "failed", !.timeoutHandle = FALSE]
       IN IF harness.promise = "pending"
          THEN Settled([failed EXCEPT !.promise = "rejected"], validation)
          ELSE failed
  /\ UNCHANGED <<engine, authServer, validation, proxy, inflight>>

\* the scenarios: the driver, the expected result and the number of errors
\* the scenario's validateBehavior will return
Scenarios ==
  { [ NewHarness EXCEPT !.driver = d, !.expectedResult = e, !.behaviorErrors = b,
                        !.process = "running", !.timeoutHandle = TRUE,
                        !.promise = "pending" ] :
      d \in {"executeClient", "runScenario"}, e \in {"PASS", "FAIL"}, b \in {0, 1} }

\* a validation server has been started and the client has been spawned
InitHarness ==
  /\ state = EMPTY_DEBUGGER_STATE
  /\ storage = EmptyStorage
  /\ last = NoCall("init")
  /\ pc = "idle"
  /\ regCalls = 0
  /\ probe = [input |-> None, result |-> "unset"]
  /\ providerCall = NoProviderCall
  /\ autoRedirect = FALSE
  /\ input = state
  /\ authServer = NewMockAuthServer
  /\ validation \in { NewValidationServer(authRequired) : authRequired \in BOOLEAN }
  /\ proxy = NewProxy
  /\ inflight = <<>>
  /\ harness \in { h \in Scenarios : h.driver = "executeClient" => h.behaviorErrors = 0 }

NextHarness ==
  \/ ClientGetResourceMetadata
  \/ ClientPostMcp
  \/ ClientExits
  \/ ClientSignalled
  \/ SpawnTimeout
  \/ TimerCallback
  \/ ExitEvent
  \/ ErrorEvent

SpecHarness == InitHarness /\ [][NextHarness]_vars

(***************************************************************************)
(* Properties.                                                             *)
(***************************************************************************)
StepOrder ==
  << "metadata_discovery", "client_registration", "authorization_redirect",
     "authorization_code", "token_request", "complete" >>

StepIndex(step) == CHOOSE i \in 1..Len(StepOrder) : StepOrder[i] = step

\* the transition just taken is an executeStep call
Executed == last'.op = "executeStep"

\* the state reached is the one an executeStep call of the given step left
After(step) == last.op = "executeStep" /\ last.step = step

\* a code that is absent, empty or made of blanks only
BlankCode(code) ==
  \/ ~IsSome(code)
  \/ \A i \in 1..Len(Val(code)) : Val(code)[i] = " "

HasCall(calls, op) == \E i \in 1..Len(calls) : calls[i].op = op

\* C1: over sequential executeStep calls, each on the state the previous one
\* published, oauthStep stays or moves to its successor in the fixed order and
\* never moves to an earlier step.
C1_ForwardOnly ==
  [][ Executed =>
        \/ state'.oauthStep = state.oauthStep
        \/ StepIndex(state'.oauthStep) = StepIndex(state.oauthStep) + 1 ]_vars

C1_Witness ==
  /\ After("token_request")
  /\ last.result = "ok"
  /\ state.oauthStep = "complete"

\* C2: when canTransition of the current step is false, executeStep throws
\* 'Cannot transition from <step>' and applies nothing of the step: no
\* updateState call, no remote call, and the persisted client information,
\* tokens, code verifier and server metadata are unchanged.
C2_GuardFailure ==
  [][ ( /\ Executed
        /\ ~canTransition(state.oauthStep, state, NewProvider(storage, ServerUrl)) )
      => /\ last'.result = "guard"
         /\ last'.error = <<"Cannot transition from", state.oauthStep>>
         /\ last'.updates = 0
         /\ last'.calls = <<>>
         /\ state' = state
         /\ Persisted(storage', ServerUrl) = Persisted(storage, ServerUrl) ]_vars

C2_Witness ==
  /\ After("token_request")
  /\ last.result = "guard"
  /\ last.error = <<"Cannot transition from", "token_request">>

\* C3: executing authorization_code with an absent, empty or blank code
\* throws, sets validationError, makes no remote call, leaves the persisted
\* records and oauthStep as they were, in every state (so also when repeated);
\* with any other code the step succeeds and moves to token_request.
C3_BlankCodeFailsLocally ==
  [][ ( Executed /\ state.oauthStep = "authorization_code" )
      => IF BlankCode(state.authorizationCode)
         THEN /\ last'.result = "throw"
              /\ last'.error = <<"Authorization code required">>
              /\ IsSome(state'.validationError)
              /\ last'.calls = <<>>
              /\ Persisted(storage', ServerUrl) = Persisted(storage, ServerUrl)
              /\ state' = [state EXCEPT !.validationError = state'.validationError]
         ELSE /\ last'.result = "ok"
              /\ state'.oauthStep = "token_request"
              /\ state'.validationError = None ]_vars

\* a code of blanks was refused and the step did not move
C3_Witness ==
  /\ After("authorization_code")
  /\ last.result = "throw"
  /\ state.authorizationCode = Some(<<" ", " ">>)
  /\ IsSome(state.validationError)
  /\ state.oauthStep = "authorization_code"

\* the first authorization server a fetched document lists, as a URL
ListsServer(fetched) ==
  IsSome(fetched) /\ Len(Val(fetched).authorization_servers) > 0

IsFirstListed(url, fetched) ==
  LET first == Val(fetched).authorization_servers[1]
  IN url = Some(first) \/ url = Some(first \o <<"/">>)

IsServerOrigin(url) == url = Some(UrlOrigin(ServerUrl) \o <<"/">>)

\* C4 as stated: if the protected-resource metadata fetch fails and
\* authorization-server discovery succeeds, metadata_discovery succeeds with
\* resourceMetadataError set, authServerUrl the origin of the server URL and
\* oauthStep client_registration; if the fetch succeeds with a non-empty
\* authorization_servers list, authServerUrl is the first listed server.
C4_Original ==
  After("metadata_discovery") =>
    /\ (~IsSome(last.env.prm) /\ last.env.asm.kind = "valid")
         => /\ last.result = "ok"
            /\ IsSome(state.resourceMetadataError)
            /\ IsServerOrigin(state.authServerUrl)
            /\ state.oauthStep = "client_registration"
    /\ (last.result = "ok" /\ ListsServer(last.env.prm))
         => IsFirstListed(state.authServerUrl, last.env.prm)

\* C4, as the step behaves: as C4, but authServerUrl is the first listed
\* server only when that entry parses as an absolute URL; when it does not,
\* authServerUrl stays the origin of the server URL and resourceMetadataError
\* records the failure (next to the fetched resourceMetadata).
C4_DiscoveryFallback ==
  After("metadata_discovery") =>
    /\ (~IsSome(last.env.prm) /\ last.env.asm.kind = "valid")
         => /\ last.result = "ok"
            /\ IsSome(state.resourceMetadataError)
            /\ IsServerOrigin(state.authServerUrl)
            /\ state.oauthStep = "client_registration"
    /\ (last.result = "ok" /\ ListsServer(last.env.prm))
         => IF Val(last.env.prm).authorization_servers[1][1] = Scheme
            THEN IsFirstListed(state.authServerUrl, last.env.prm)
            ELSE /\ IsServerOrigin(state.authServerUrl)
                 /\ IsSome(state.resourceMetadataError)
                 /\ state.resourceMetadata = last.env.prm

\* the fetch failed, discovery at the origin succeeded
C4_Witness ==
  /\ After("metadata_discovery")
  /\ ~IsSome(last.env.prm)
  /\ last.result = "ok"
  /\ IsSome(state.resourceMetadataError)
  /\ state.oauthStep = "client_registration"

\* C5: if authorization-server metadata discovery returns nothing, throws or
\* fails schema validation, metadata_discovery throws, oauthStep stays
\* metadata_discovery, updateState is not called and the provider persists no
\* server metadata.
C5_DiscoveryFailureIsFatal ==
  [][ ( /\ Executed
        /\ last'.step = "metadata_discovery"
        /\ HasCall(last'.calls, "discoverAuthorizationServerMetadata")
        /\ last'.env.asm.kind # "valid" )
      => /\ last'.result = "throw"
         /\ last'.updates = 0
         /\ state' = state
         /\ state'.oauthStep = "metadata_discovery"
         /\ getServerMetadata(storage', ServerUrl) = getServerMetadata(storage, ServerUrl)
     ]_vars

\* discovery answered a document the schema rejects
C5_Witness ==
  /\ After("metadata_discovery")
  /\ last.env.asm.kind = "invalid"
  /\ last.result = "throw"
  /\ state.oauthStep = "metadata_discovery"

\* C6: once client information is persisted for the server URL, a
\* client_registration execution makes no registration call, leaves the
\* persisted record unchanged and sets oauthClientInfo to the persisted record;
\* a registration call is made only when no record is persisted.
C6_PersistedClientReused ==
  [][ ( Executed /\ last'.step = "client_registration" /\ last'.result # "guard" )
      => LET stored == clientInformation(storage, ServerUrl)
         IN IF IsSome(stored)
            THEN /\ ~HasCall(last'.calls, "registerClient")
                 /\ clientInformation(storage', ServerUrl) = stored
                 /\ last'.result = "ok"
                 /\ state'.oauthClientInfo = stored
            ELSE RegisterCalls(last'.calls) = 1 ]_vars

\* a second flow run over the same store took the client of the first
C6_Witness ==
  /\ After("client_registration")
  /\ last.result = "ok"
  /\ last.calls = <<>>
  /\ IsSome(state.oauthClientInfo)
  /\ state.oauthClientInfo = clientInformation(storage, ServerUrl)

AzureLoginHosts ==
  { <<"login", ".", "microsoftonline", ".", "com">>,
    <<"login", ".", "microsoft", ".", "com">>,
    <<"login", ".", "live", ".", "com">> }

IsSuffix(suffix, s) ==
  Len(suffix) <= Len(s) /\ SubSeq(s, Len(s) - Len(suffix) + 1, Len(s)) = suffix

\* the host of an authorization endpoint is an Azure AD / Entra login host:
\* one of the three login hosts or a subdomain of b2clogin.com
HostIsAzure(endpoint) ==
  /\ IsSome(endpoint)
  /\ Val(endpoint) # <<>>
  /\ LET host == UrlHost(Val(endpoint))
     IN \/ host \in AzureLoginHosts
        \/ /\ IsSuffix(<<".", "b2clogin", ".", "com">>, host)
           /\ Len(host) > 4

\* C7 as stated: with a resource selected during discovery, the parameters of
\* startAuthorization and of exchangeAuthorization carry no resource when the
\* authorization endpoint is an Azure AD / Entra login host, and carry the
\* selected resource when it is not.
C7_Original ==
  (last.op = "executeStep" /\ IsSome(state.resource)) =>
    \A i \in 1..Len(last.calls) :
      last.calls[i].op \in {"startAuthorization", "exchangeAuthorization"} =>
        IF HostIsAzure(last.calls[i].url)
        THEN last.calls[i].resource = None
        ELSE last.calls[i].resource = state.resource

\* C8 as stated: isAzureADEndpoint is true exactly when the host of
\* authorization_endpoint is login.microsoftonline.com, login.microsoft.com,
\* login.live.com or a subdomain of b2clogin.com, and false for every other
\* host, whatever the path or query, and for a missing or empty endpoint.
C8_Original ==
  probe.result # "unset" =>
    (probe.result = "true" <=> HostIsAzure(probe.input))

\* a failed call whose last remote call is the given operation
FailedIn(call, op) ==
  /\ call.result = "throw"
  /\ Len(call.calls) > 0
  /\ call.calls[Len(call.calls)].op = op

\* C9: from the empty debugger state over an empty store, with no
\* protected-resource metadata, valid authorization-server metadata, every
\* remote call succeeding and a non-empty code typed before authorization_code,
\* five successive executeStep calls reach complete with exactly one
\* registration call, a persisted code verifier and persisted tokens equal to
\* oauthTokens: the run arrives at its sixth call in that state, and one of its
\* first five calls fails only where discovery, registration, the authorization
\* start or the exchange failed remotely or the typed code was blank.
C9_ScenarioA ==
  /\ (pc = "validate_token" /\ ~IsSome(state.resourceMetadata))
       => /\ state.oauthStep = "complete"
          /\ regCalls = 1
          /\ IsSome(codeVerifier(storage, ServerUrl))
          /\ IsSome(state.oauthTokens)
          /\ tokens(storage, ServerUrl) = state.oauthTokens
  /\ ( /\ pc = "failed"
       /\ last.step # "complete"
       /\ IF last.step = "metadata_discovery"
          THEN ~IsSome(last.env.prm)
          ELSE ~IsSome(state.resourceMetadata) )
       => \/ /\ FailedIn(last, "discoverAuthorizationServerMetadata")
             /\ last.env.asm.kind # "valid"
          \/ FailedIn(last, "registerClient") /\ ~IsSome(last.env.reg)
          \/ FailedIn(last, "startAuthorization") /\ ~IsSome(last.env.sa)
          \/ FailedIn(last, "exchangeAuthorization") /\ ~IsSome(last.env.ex)
          \/ /\ last.step = "authorization_code"
             /\ last.result = "throw"
             /\ BlankCode(state.authorizationCode)

\* the fifth call succeeded in a run without protected-resource metadata
C9_Witness ==
  /\ pc = "validate_token"
  /\ ~IsSome(state.resourceMetadata)
  /\ IsSome(state.resourceMetadataError)
  /\ state.oauthStep = "complete"
  /\ regCalls = 1
  /\ tokens(storage, ServerUrl) = state.oauthTokens

C11_MissingVerifier ==
  [][ ( /\ Executed
        /\ state.oauthStep = "token_request"
        /\ last'.result # "guard"
        /\ ~IsSome(codeVerifier(storage, ServerUrl)) )
      => /\ last'.result = "throw"
         /\ last'.error = <<"No code verifier saved for session">>
         /\ last'.calls = <<>>
         /\ tokens(storage', ServerUrl) = tokens(storage, ServerUrl)
         /\ Persisted(storage', ServerUrl) = Persisted(storage, ServerUrl)
         /\ last'.updates = 0
         /\ state' = state
         /\ state'.oauthStep = "token_request" ]_vars

\* the guard passed on persisted metadata and client information, and the
\* step threw for the verifier that is not there
C11_Witness ==
  /\ After("token_request")
  /\ last.result = "throw"
  /\ last.error = <<"No code verifier saved for session">>
  /\ IsSome(getServerMetadata(storage, ServerUrl))
  /\ IsSome(clientInformation(storage, ServerUrl))
  /\ ~IsSome(codeVerifier(storage, ServerUrl))
  /\ ~IsSome(tokens(storage, ServerUrl))

C13_Original ==
  (After("metadata_discovery") /\ last.result = "ok")
    => (IsSome(state.resourceMetadata) # IsSome(state.resourceMetadataError))

\* the provider method that was called last, and its server
Called(op) == providerCall'.op = op

CalledFor == Val(providerCall'.serverUrl)

C15_ClearForgetsServer ==
  [][ Called("clear")
      => /\ clientInformation(storage', CalledFor) = None
         /\ tokens(storage', CalledFor) = None
         /\ codeVerifier(storage', CalledFor) = None
         /\ \A other \in Servers \ {CalledFor} :
              Persisted(storage', other) = Persisted(storage, other) ]_vars

\* a server was cleared while the other server has all its records
C15_Witness ==
  /\ providerCall.op = "clear"
  /\ providerCall.serverUrl = Some(ServerUrl)
  /\ \A k \in CredentialKeys(ServerUrl) \ {getServerSpecificKey(SESSION_KEYS.SERVER_METADATA, ServerUrl)} :
       storage[k] = None
  /\ \A k \in CredentialKeys(OtherServerUrl) : storage[k] # None

\* C16 as stated: every storage key a provider reads, writes or removes, its
\* construction included, is namespaced by its server URL, so that no provider
\* changes a stored value that a flow for another server wrote or sees.
C16_Original ==
  [][ \A k \in StorageKeys :
        storage'[k] # storage[k] => k[1] = CalledFor ]_vars

\* the answer to the GET of the probe that ran last
ProbeAnswer == Val(last.env.http)

ProbeUrl == Val(state.authorizationUrl).endpoint

IsRedirectStatus(status) == status \in 300..399

\* the answer is a redirect whose Location, resolved against the
\* authorization URL, has a non-empty code parameter
RedirectCarriesCode(http, authUrl) ==
  /\ http.kind = "response"
  /\ IsRedirectStatus(http.status)
  /\ IsSome(http.location)
  /\ CanResolve(Val(http.location), authUrl)
  /\ ~Falsy(SearchParam(ResolveLocation(Val(http.location), authUrl), "code="))

\* the failures of the probe: a connection error, a status that is not 3xx,
\* no Location header, a redirect without a code parameter
ProbeFailed(http, authUrl) ==
  \/ http.kind = "error"
  \/ ~IsRedirectStatus(http.status)
  \/ ~IsSome(http.location)
  \/ /\ CanResolve(Val(http.location), authUrl)
     /\ Falsy(SearchParam(ResolveLocation(Val(http.location), authUrl), "code="))

\* C17 as stated: in auto-redirect mode a failed redirect probe makes the
\* driver fall back to manual code entry: runFullFlow does not fail for it and
\* goes on to authorization_code with the code that was entered.
C17_Original ==
  ( /\ last.op = "fetchAuthCodeFromRedirect"
    /\ ProbeFailed(ProbeAnswer, ProbeUrl) )
  => pc = "authorization_code"

\* C18 as stated: fetchAuthCodeFromRedirect issues exactly one GET and follows
\* no redirect; it yields a code exactly when the status is in [300,400), a
\* Location header is present and the Location resolved against the
\* authorization URL has a non-empty code parameter, and it yields that
\* parameter; every other answer is an explicit failure of the probe.
C18_Original ==
  last.op = "fetchAuthCodeFromRedirect"
  => /\ Len(last.calls) = 1
     /\ last.calls[1].op = "GET"
     /\ last.calls[1].url = Some(ProbeUrl)
     /\ last.result = "resolve" <=> RedirectCarriesCode(ProbeAnswer, ProbeUrl)
     /\ last.result = "resolve"
          => state.authorizationCode =
               SearchParam(ResolveLocation(Val(ProbeAnswer.location), ProbeUrl), "code=")
     /\ last.result # "resolve" => last.result = "reject"

\* C19: complete is terminal: once oauthStep is complete, every executeStep
\* call throws 'Cannot transition from complete', calls updateState never and
\* makes no remote call, so oauthStep, oauthTokens and the persisted tokens
\* stay as they are.
C19_CompleteIsTerminal ==
  [][ ( Executed /\ state.oauthStep = "complete" )
      => /\ last'.result = "guard"
         /\ last'.error = <<"Cannot transition from", "complete">>
         /\ last'.updates = 0
         /\ last'.calls = <<>>
         /\ state' = state
         /\ state'.oauthStep = "complete"
         /\ state'.oauthTokens = state.oauthTokens
         /\ tokens(storage', ServerUrl) = tokens(storage, ServerUrl) ]_vars

\* an executeStep call on a completed flow was refused, tokens in place
C19_Witness ==
  /\ After("complete")
  /\ last.result = "guard"
  /\ state.oauthStep = "complete"
  /\ IsSome(state.oauthTokens)
  /\ tokens(storage, ServerUrl) = state.oauthTokens

\* C20: the guard of client_registration is false exactly when
\* state.oauthMetadata is absent, whatever client information is persisted or
\* held in oauthClientInfo and whatever the other fields of the state are: an
\* executeStep call at client_registration is refused in exactly those states.
C20_RegistrationGuard ==
  [][ ( Executed /\ state.oauthStep = "client_registration" )
      => ( last'.result = "guard" <=> ~IsSome(state.oauthMetadata) ) ]_vars

\* the call was let through although a client was persisted already
C20_Witness ==
  /\ After("client_registration")
  /\ last.result = "ok"
  /\ last.calls = <<>>
  /\ IsSome(state.oauthMetadata)
  /\ state.oauthClientInfo = clientInformation(storage, ServerUrl)

\* a record is stored under the key of the server URL
Stored(sto, baseKey) ==
  getItem(sto, getServerSpecificKey(baseKey, ServerUrl)) # None

\* C21: the guard of token_request lets a call through if and only if
\* state.authorizationCode is a non-empty string, server metadata is stored
\* for the server URL and client information is stored for the server URL;
\* state.oauthMetadata and state.oauthClientInfo play no part, and a call that
\* the guard refuses leaves the state and every persisted record as they were.
C21_TokenRequestGuard ==
  [][ ( Executed /\ state.oauthStep = "token_request" )
      => LET codePresent == /\ IsSome(state.authorizationCode)
                            /\ Val(state.authorizationCode) # <<>>
             open == /\ codePresent
                     /\ Stored(storage, SESSION_KEYS.SERVER_METADATA)
                     /\ Stored(storage, SESSION_KEYS.CLIENT_INFORMATION)
         IN /\ (last'.result # "guard") <=> open
            /\ canTransition("token_request", state, storage) <=> open
            /\ last'.result = "guard"
                 => /\ state' = state
                    /\ Persisted(storage', ServerUrl) = Persisted(storage, ServerUrl) ]_vars

\* the guard passed on the persisted records alone: the state that was passed
\* holds neither metadata nor client information
C21_Witness ==
  /\ After("token_request")
  /\ last.result = "ok"
  /\ Len(last.calls) = 1
  /\ ~IsSome(state.oauthMetadata)
  /\ ~IsSome(state.oauthClientInfo)
  /\ IsSome(state.oauthTokens)

\* the call reached the remote operation and the remote operation failed
RemoteFailure(call, op, answer) == HasCall(call.calls, op) /\ ~IsSome(answer)

\* C22: when registerClient fails in client_registration, startAuthorization
\* fails in authorization_redirect or exchangeAuthorization fails in
\* token_request, the step throws, oauthStep does not advance, updateState is
\* not called, and the persisted client information, code verifier, tokens
\* and server metadata are exactly as before the call.
C22_RemoteFailureWritesNothing ==
  [][ ( /\ Executed
        /\ \/ /\ last'.step = "client_registration"
              /\ RemoteFailure(last', "registerClient", last'.env.reg)
           \/ /\ last'.step = "authorization_redirect"
              /\ RemoteFailure(last', "startAuthorization", last'.env.sa)
           \/ /\ last'.step = "token_request"
              /\ RemoteFailure(last', "exchangeAuthorization", last'.env.ex) )
      => /\ last'.result = "throw"
         /\ state'.oauthStep = state.oauthStep
         /\ last'.updates = 0
         /\ state' = state
         /\ Persisted(storage', ServerUrl) = Persisted(storage, ServerUrl) ]_vars

\* the exchange failed over a store that held tokens of an earlier run: they
\* are still there and the step is still token_request
C22_Witness ==
  /\ After("token_request")
  /\ FailedIn(last, "exchangeAuthorization")
  /\ ~IsSome(last.env.ex)
  /\ state.oauthStep = "token_request"
  /\ ~IsSome(state.oauthTokens)
  /\ tokens(storage, ServerUrl) = Some([access_token |-> "token-1"])

\* the transition is the second call of a step that succeeded the first time
Rerun(step) == pc = "returned" /\ pc' = "rerun" /\ input.oauthStep = step

\* C23 as stated: running a step again with the same input state after it
\* succeeded sends no second registration request and no second
\* token-exchange request for the same authorization code.
C23_Original ==
  [][ /\ Rerun("client_registration") => ~HasCall(last'.calls, "registerClient")
      /\ Rerun("token_request") => ~HasCall(last'.calls, "exchangeAuthorization") ]_vars

\* C23, amended: running client_registration again with the same input state
\* after it succeeded sends no request: the persisted client information is
\* published again.  Running token_request again with the same input state
\* after it succeeded passes the guard again and sends a second exchange
\* request with the same authorization code and the same verifier; when that
\* request succeeds its tokens replace the persisted ones, and when it fails
\* the persisted tokens stay.
C23_RerunExchangesAgain ==
  [][ /\ Rerun("client_registration")
        => /\ last'.result = "ok"
           /\ last'.calls = <<>>
           /\ state'.oauthClientInfo = clientInformation(storage, ServerUrl)
           /\ state' = state
           /\ Persisted(storage', ServerUrl) = Persisted(storage, ServerUrl)
      /\ Rerun("token_request")
        => /\ last'.result \in {"ok", "throw"}
           /\ Len(last'.calls) = 1
           /\ last'.calls = last.calls
           /\ last'.calls[1].op = "exchangeAuthorization"
           /\ last'.calls[1].code = input.authorizationCode
           /\ last'.calls[1].verifier = codeVerifier(storage, ServerUrl)
           /\ tokens(storage', ServerUrl) =
                IF IsSome(last'.env.ex) THEN last'.env.ex
                ELSE tokens(storage, ServerUrl) ]_vars

\* the second token_request exchanged the same code again and its tokens
\* replaced those of the first
C23_Witness ==
  /\ pc = "rerun"
  /\ After("token_request")
  /\ last.result = "ok"
  /\ last.calls[1].code = input.authorizationCode
  /\ input.oauthStep = "token_request"
  /\ state.oauthStep = "complete"
  /\ tokens(storage, ServerUrl) = Some([access_token |-> "token-2"])

\* C24 as stated: in a run of the CLI driver the call made for validate_token,
\* which follows a successful token_request, passes its guard, and
\* runFullFlow returns true.
C24_Original ==
  (pc \in {"done", "failed"} /\ After("complete"))
    => /\ last.result = "ok"
       /\ pc = "done"

\* C25: a successful executeStep calls updateState exactly once, with a
\* partial state that holds the new oauthStep, and only when every remote call
\* of the step has succeeded; a failing executeStep does not call it, except
\* that the local validation failure of authorization_code calls it once with
\* validationError alone.
C25_OneUpdatePerStep ==
  [][ Executed =>
        CASE last'.result = "guard" -> last'.updates = 0
          [] last'.result = "ok" ->
               LET r == execute(state.oauthStep, state,
                                NewProvider(storage, ServerUrl), last'.env)
               IN /\ last'.updates = 1
                  /\ Len(r.updates) = 1
                  /\ "oauthStep" \in DOMAIN r.updates[1]
                  /\ r.updates[1].oauthStep = state'.oauthStep
                  /\ StepIndex(state'.oauthStep) = StepIndex(state.oauthStep) + 1
                  /\ r.calls = last'.calls
                  /\ ~RemoteFailure(last', "registerClient", last'.env.reg)
                  /\ ~RemoteFailure(last', "startAuthorization", last'.env.sa)
                  /\ ~RemoteFailure(last', "exchangeAuthorization", last'.env.ex)
                  /\ HasCall(last'.calls, "discoverAuthorizationServerMetadata")
                       => last'.env.asm.kind = "valid"
          [] last'.result = "throw" ->
               LET r == execute(state.oauthStep, state,
                                NewProvider(storage, ServerUrl), last'.env)
               IN IF state.oauthStep = "authorization_code"
                  THEN /\ last'.updates = 1
                       /\ DOMAIN r.updates[1] = {"validationError"}
                       /\ IsSome(r.updates[1].validationError)
                  ELSE last'.updates = 0 ]_vars

\* discovery made its two remote calls and published its result in one update
C25_Witness ==
  /\ After("metadata_discovery")
  /\ last.result = "ok"
  /\ last.updates = 1
  /\ Len(last.calls) = 2
  /\ state.oauthStep = "client_registration"
  /\ IsSome(state.oauthMetadata)

\* the step is the answer of the token endpoint to an authorization_code grant
CodeGrant ==
  /\ authServer' # authServer
  /\ IsSome(authServer'.request)
  /\ "grant_type" \in DOMAIN Val(authServer'.request)
  /\ Val(authServer'.request).grant_type = "authorization_code"

\* the grant names the issued code, a request is stored for it, the redirect
\* URI is the stored one and the verifier hashes to the stored challenge
GrantIsValid(body, stored) ==
  /\ body.code = Some(AUTH_CONSTANTS.FIXED_AUTH_CODE)
  /\ IsSome(stored)
  /\ body.redirect_uri = Val(stored).redirectUri
  /\ body.code_verifier.type = "string"
  /\ Some(S256(body.code_verifier.value)) = Val(stored).codeChallenge

\* C26 as stated: the token endpoint answers an authorization_code grant with
\* tokens only if the code is the issued code, an authorization request is
\* stored for it, redirect_uri is the stored redirect URI and
\* S256(code_verifier) is the stored code_challenge; in every other case it
\* answers 400 invalid_grant and issues no token.
C26_Original ==
  [][ CodeGrant =>
        LET body == Val(authServer'.request)
            response == Val(authServer'.response)
        IN IF GrantIsValid(body, authServer.authorizationRequests)
           THEN IsSome(response.access_token)
           ELSE response = Response(400, Some("invalid_grant"), None) ]_vars

\* the step is an MCP request the validation server accepted, sent with the
\* access token the mock authorization server has just issued for an
\* authorization code
AuthorizedMcpRequest ==
  /\ validation' # validation
  /\ Val(validation'.request).method # "metadata"
  /\ Val(validation'.response).status = 200
  /\ IsSome(authServer.response)
  /\ IsSome(Val(authServer.response).access_token)
  /\ Val(authServer.request).grant_type = "authorization_code"
  /\ Val(validation'.request).bearer = Val(authServer.response).access_token

\* C27 as stated: once a client has completed the OAuth flow against a
\* validation server with authRequired (it obtained a token from the mock
\* authorization server and used it on an accepted MCP request),
\* getClientBehavior().authFlowCompleted is true; without authRequired it
\* stays false whatever the client does.
C27_Original ==
  [][ /\ (AuthorizedMcpRequest /\ validation.config.authRequired)
        => validation'.clientBehavior.authFlowCompleted
      /\ ~validation'.config.authRequired
        => ~validation'.clientBehavior.authFlowCompleted ]_vars

\* the step is the given event of the proxy
ProxyStep(name) == proxy' # proxy /\ proxy'.event.name = name

OnCloseFired == ProxyStep("client.onclose") \/ ProxyStep("server.onclose")

\* no onclose has fired before
FirstClose == proxy.fired = [client |-> 0, server |-> 0]

\* C28 as stated: mcpProxy calls the onCleanup callback exactly once, when
\* the first of the two transports closes, and not again when the other one
\* closes afterwards.
C28_Original ==
  [][ OnCloseFired =>
        proxy'.cleanupCalls = IF FirstClose THEN proxy.cleanupCalls + 1
                              ELSE proxy.cleanupCalls ]_vars

\* C29: when the onclose of one transport fires first, the proxy calls
\* close() on the other transport exactly once and not on the one that
\* closed; when the onclose of the other transport fires afterwards, the
\* proxy calls close() on neither.  This holds in both orders.
C29_CloseSynchronization ==
  [][ /\ (ProxyStep("client.onclose") /\ FirstClose)
        => proxy'.closeCalls = [client |-> 0, server |-> 1]
      /\ (ProxyStep("server.onclose") /\ FirstClose)
        => proxy'.closeCalls = [client |-> 1, server |-> 0]
      /\ (OnCloseFired /\ ~FirstClose)
        => proxy'.closeCalls = proxy.closeCalls ]_vars

\* the server transport closed first, the client transport after it: the
\* proxy closed the client transport once and never the server transport
C29_Witness ==
  /\ proxy.event.name = "client.onclose"
  /\ proxy.fired = [client |-> 1, server |-> 1]
  /\ proxy.transportToServerClosed
  /\ proxy.closeCalls = [client |-> 1, server |-> 0]

\* the error responses among the messages sent to the client
ErrorResponses(sent) == { i \in 1..Len(sent) : "error" \in DOMAIN sent[i] }

\* C30 as stated: when forwarding a client message to the server fails, the
\* proxy sends exactly one error response with the id of the message to the
\* client if the message is a request and the onclose of the client transport
\* has not fired, and nothing otherwise.
C30_Original ==
  [][ ProxyStep("send.rejected") =>
        LET message == Val(proxy'.event.message)
        IN IF isJSONRPCRequest(message) /\ proxy.fired.client = 0
           THEN /\ Len(proxy'.sentToClient) = Len(proxy.sentToClient) + 1
                /\ ErrorResponses(proxy'.sentToClient) =
                     ErrorResponses(proxy.sentToClient) \cup {Len(proxy'.sentToClient)}
                /\ proxy'.sentToClient[Len(proxy'.sentToClient)].id = message.id
           ELSE proxy'.sentToClient = proxy.sentToClient ]_vars

\* the step is an executeStep call that passed the guard of the given step
Ran(step) == Executed /\ last'.step = step /\ last'.result # "guard"

\* C32: in a flow driven step by step from metadata_discovery over one store,
\* when token_request runs the persisted server metadata is the metadata in
\* state.oauthMetadata, so the Azure predicate gives the same answer on both,
\* and the token request carries the resource parameter exactly when the
\* authorization URL does.
C32_SameResourceDecision ==
  [][ Ran("token_request") =>
        /\ getServerMetadata(storage, ServerUrl) = state.oauthMetadata
        /\ \A i \in 1..Len(last'.calls) :
             last'.calls[i].op = "exchangeAuthorization" =>
               last'.calls[i].resource = Val(state.authorizationUrl).resource ]_vars

\* a token request for an Azure authorization server went out without the
\* resource although the flow had selected one
C32_Witness ==
  /\ After("token_request")
  /\ last.result = "ok"
  /\ IsSome(state.resource)
  /\ isAzureADEndpoint(Val(state.oauthMetadata))
  /\ \E i \in 1..Len(last.calls) :
       last.calls[i].op = "exchangeAuthorization" /\ ~IsSome(last.calls[i].resource)

\* C33 as stated: metadata_discovery throws only when the discovery of the
\* authorization-server metadata or its schema validation fails; no outcome
\* of the protected-resource metadata fetch, of reading its
\* authorization_servers, or of the resource selection makes it throw.
C33_Original ==
  [][ (Ran("metadata_discovery") /\ last'.result = "throw") =>
        /\ HasCall(last'.calls, "discoverAuthorizationServerMetadata")
        /\ last'.env.asm.kind # "valid" ]_vars

\* the remote operation got a failure for an answer, of the operations whose
\* failure fails the step
FailedRemotely(op, env) ==
  CASE op = "discoverAuthorizationServerMetadata" -> env.asm.kind = "throws"
    [] op = "registerClient" -> ~IsSome(env.reg)
    [] op = "startAuthorization" -> ~IsSome(env.sa)
    [] op = "exchangeAuthorization" -> ~IsSome(env.ex)
    [] OTHER -> FALSE

\* C34: within one executeStep call every remote operation is invoked at most
\* once, and the operation whose failure fails the step is the last one the
\* call invokes: nothing is invoked after it until the caller calls
\* executeStep again.
C34_NoRetry ==
  [][ Executed =>
        LET calls == last'.calls
        IN /\ \A i, j \in 1..Len(calls) : calls[i].op = calls[j].op => i = j
           /\ \A i \in 1..Len(calls) :
                FailedRemotely(calls[i].op, last'.env) =>
                  /\ last'.result = "throw"
                  /\ i = Len(calls) ]_vars

\* a registration request failed and the call ended with that one request
C34_Witness ==
  /\ After("client_registration")
  /\ last.result = "throw"
  /\ ~IsSome(last.env.reg)
  /\ Len(last.calls) = 1
  /\ last.calls[1].op = "registerClient"

\* C35: after any sequence of authorization_redirect executions for one
\* server URL, overlapping ones included, the code verifier the provider has
\* persisted is the one that was generated with the authorization URL in
\* state.authorizationUrl.
C35_VerifierMatchesUrl ==
  IsSome(state.authorizationUrl) =>
    LET verifier == codeVerifier(storage, ServerUrl)
    IN /\ IsSome(verifier)
       /\ S256(Val(verifier)) = Val(state.authorizationUrl).code_challenge

\* an authorization_redirect call has completed while another one, which was
\* given a different verifier, is still waiting for its answer
C35_Witness ==
  /\ After("authorization_redirect")
  /\ last.result = "ok"
  /\ \E i \in 1..Len(inflight) :
       /\ inflight[i].step = "authorization_redirect"
       /\ IsSome(inflight[i].env.sa)
       /\ inflight[i].env.sa # last.env.sa

\* C37 as stated: oauthStep never moves backward, also when executeStep
\* calls overlap and one of them completes late.
C37_Original ==
  [][ StepIndex(state'.oauthStep) >= StepIndex(state.oauthStep) ]_vars

\* C37, amended: with overlapping executeStep calls, a call that succeeds
\* sets oauthStep to the successor of the step of the state it was started
\* with, and a call that fails leaves oauthStep as it is; so oauthStep does
\* not move backward when the call was started at the step that is published
\* when it completes.
C37_CompletionPublishesSuccessor ==
  [][ Executed =>
        /\ state'.oauthStep =
             IF last'.result = "ok" /\ last'.step # "complete"
             THEN StepOrder[StepIndex(last'.step) + 1]
             ELSE state.oauthStep
        /\ last'.step = state.oauthStep =>
             StepIndex(state'.oauthStep) >= StepIndex(state.oauthStep) ]_vars

\* a metadata_discovery call has completed after the registration that
\* followed its twin: the client is registered and oauthStep is back at
\* client_registration
C37_Witness ==
  /\ After("metadata_discovery")
  /\ last.result = "ok"
  /\ HasCall(last.calls, "discoverAuthorizationServerMetadata")
  /\ IsSome(state.oauthClientInfo)
  /\ state.oauthStep = "client_registration"

\* C36 as stated: exchangeAuthorization is never called with an
\* authorization code that is absent, empty or made of whitespace only,
\* whatever state the caller passes to executeStep.
C36_Original ==
  [][ Executed =>
        \A i \in 1..Len(last'.calls) :
          last'.calls[i].op = "exchangeAuthorization" =>
            ~BlankCode(last'.calls[i].code) ]_vars

\* C38: the mock authorization server's code is single-use.  A successful
\* authorization_code exchange removes the stored authorization request, and
\* while none is stored (until a new /authorize request stores one) every
\* exchange is answered invalid_grant; an exchange that fails leaves the
\* stored request in place, so that a correct exchange after it succeeds.
C38_SingleUseCode ==
  [][ /\ CodeGrant =>
           LET body == Val(authServer'.request)
               response == Val(authServer'.response)
               stored == authServer.authorizationRequests
           IN /\ response.status = 200 => ~IsSome(authServer'.authorizationRequests)
              /\ response.status # 200 => authServer'.authorizationRequests = stored
              /\ ~IsSome(stored) => response = Response(400, Some("invalid_grant"), None)
              /\ GrantIsValid(body, stored) => response.status = 200
      /\ ( /\ ~IsSome(authServer.authorizationRequests)
           /\ IsSome(authServer'.authorizationRequests) )
         => "response_type" \in DOMAIN Val(authServer'.request) ]_vars

\* a correct exchange has been answered with tokens and has left no stored
\* authorization request behind
C38_Witness ==
  /\ ~IsSome(authServer.authorizationRequests)
  /\ IsSome(authServer.request)
  /\ "grant_type" \in DOMAIN Val(authServer.request)
  /\ Val(authServer.request).grant_type = "authorization_code"
  /\ Val(authServer.response).status = 200

\* the proxy has seen the transport close or has closed it itself
ClientGone == proxy.fired.client > 0 \/ proxy.closeCalls.client > 0

ServerGone == proxy.fired.server > 0 \/ proxy.closeCalls.server > 0

AllPass(results) == \A i \in 1..Len(results) : results[i].result = "PASS"

\* C31: the report's overall_result is PASS exactly when every validation
\* result is PASS, the exit code the driver obtained for the client is 0 and,
\* in the scenario runner, validateBehavior returned no error; the scenario
\* runner counts a scenario as passed exactly when it has a report whose
\* overall_result is the scenario's expectedResult.
C31_ReportVerdict ==
  /\ IsSome(harness.report) =>
       ( Val(harness.report).overall_result = "PASS" <=>
           /\ AllPass(getValidationResults(validation))
           /\ harness.exitCode = Some(0)
           /\ harness.driver = "runScenario" => harness.behaviorErrors = 0 )
  /\ (harness.driver = "runScenario" /\ harness.outcome = "returned") =>
       harness.passed =
         Some(/\ IsSome(harness.report)
              /\ Val(harness.report).overall_result = harness.expectedResult)

\* every validation result is PASS and the client exited with status 1: the
\* report says FAIL, and the scenario, which expected FAIL, counts as passed
C31_Witness ==
  /\ harness.driver = "runScenario"
  /\ IsSome(harness.report)
  /\ AllPass(getValidationResults(validation))
  /\ harness.exitCode = Some(1)
  /\ Val(harness.report).overall_result = "FAIL"
  /\ harness.expectedResult = "FAIL"
  /\ harness.passed = Some(TRUE)

\* C40 as stated: the driver reports exit code 0 only for a client process
\* that terminated on its own with status 0; a client killed by a signal is
\* never reported with exit code 0, and executeClient reports a client that
\* was killed on the timeout with timedOut = true and exit code -1.
C40_Original ==
  /\ harness.exitCode = Some(0) =>
       harness.status = Some([code |-> Some(0), signal |-> None])
  /\ ( /\ harness.driver = "executeClient"
       /\ harness.outcome = "returned"
       /\ harness.status = Killed("SIGTERM") )
     => harness.timedOut /\ harness.exitCode = Some(-1)

====
